---- MODULE Spec2Model ----
(***************************************************************************)
(* TripNote: the trips application (Trip, Destination, DayPlan, Budget,    *)
(* Expense, TripLog) and the REST handlers that write and read it.         *)
(* Dates are day ordinals (integers); amounts are integral currency units. *)
(* The database runs in autocommit mode (settings.py sets no               *)
(* ATOMIC_REQUESTS and no handler opens a transaction), so every ORM call  *)
(* of a handler is committed on its own.                                   *)
(* Every caller is authenticated. trips/permissions.py (IsOwnerOrReadOnly) *)
(* is not part of the sources at hand; the handlers reach an object only   *)
(* through get_queryset, which already keeps to the caller's rows.         *)
(***************************************************************************)
EXTENDS Integers, FiniteSets, Sequences, TLC

\* ---------------------------------------------------------------- bounds
\* Trip rows ever inserted, and Destination, Expense and TripLog rows ever
\* inserted (all three tables together).
MaxTrips == 2
MaxRows == 2

\* Destination rows and TripLog rows of a trip whose comparison is computed.
MaxPlanned == 2
MaxLogged == 2

\* Destination rows of a trip whose plan completion rate is computed.
MaxCompletionPlanned == 3

\* TripLog rows of a trip whose average rating is computed.
MaxRated == 3

\* serializers.py: "if duration > 30"
MaxDuration == 30

Users == {"alice", "bob"}

\* Day ordinals a request may carry: spans of 1, 2, MaxDuration and
\* MaxDuration + 1 days can all be asked for.
Dates == {1, 2, MaxDuration + 1}

\* An optional value (a field the payload may not carry, a nullable column):
\* the empty tuple when there is none, a 1-tuple otherwise.
Absent == <<>>

Given(x) == <<x>>

Optional(S) == {Absent} \cup {Given(x) : x \in S}

VARIABLES
  trips,         \* Trip rows: id -> [user, start_date, end_date]
  day_plans,     \* DayPlan rows: set of [trip, day_number, date, memo]
  destinations,  \* Destination rows: id -> [trip, name, day, estimated_cost]
  budgets,       \* Budget rows: set of [trip, category, amount]
  expenses,      \* Expense rows: id -> [trip, category, amount, expense_date, day_number,
                 \*                      payment_method, destination]
  logs,          \* TripLog rows: id -> [trip, place_name, visit_date, day_number, visit_status,
                 \*                      rating, destination]
  photos,        \* TripLogPhoto rows: set of [log, image_url, order]
  seq,           \* last primary key handed out, per table
  requests,      \* per worker, the Trip update it is in the middle of:
                 \* [pc, trip, instance, replace, day_number]
  resp           \* the last response: [status, errors, body, data]

store == <<trips, day_plans, destinations, budgets, expenses, logs, photos, seq>>
vars == <<trips, day_plans, destinations, budgets, expenses, logs, photos, seq, requests, resp>>

EmptyTable == [x \in {} |-> x]

\* The workers that serve requests at the same time.
Workers == {"w1", "w2"}

\* A worker between two requests.
Idle ==
  [pc |-> "idle", trip |-> 0, instance |-> [user |-> "", start_date |-> 0, end_date |-> 0],
   replace |-> FALSE, day_number |-> 0]

NoRequests == [w \in Workers |-> Idle]

Init ==
  /\ trips = EmptyTable
  /\ day_plans = {}
  /\ destinations = EmptyTable
  /\ budgets = {}
  /\ expenses = EmptyTable
  /\ logs = EmptyTable
  /\ photos = {}
  /\ requests = NoRequests
  /\ seq = [trip |-> 0, destination |-> 0, expense |-> 0, log |-> 0]
  /\ resp = [status |-> 0, errors |-> {}, body |-> {}, data |-> [kind |-> "none"]]

\* ------------------------------------------------------------- responses
\* status, the errors of the body as <<field, message>> pairs (the message
\* abbreviated), the trips whose data the body holds
Response(status, errors, body) ==
  [status |-> status, errors |-> errors, body |-> body, data |-> [kind |-> "none"]]

\* A 200 response whose body is the computed data of trip t (a record whose
\* field kind names the handler).
DataResponse(t, data) ==
  [status |-> 200, errors |-> {}, body |-> {t}, data |-> data]

\* A response that leaves the database as it is.
Reply(status, errors, body) ==
  /\ resp' = Response(status, errors, body)
  /\ UNCHANGED <<store, requests>>

\* ------------------------------------------------------------ Trip model
duration_days(trip) == (trip.end_date - trip.start_date) + 1

\* Destination, Expense and TripLog rows inserted so far.
RowsInserted == seq.destination + seq.expense + seq.log

\* Rows of a table (id -> row) that belong to trip t.
RowsOf(table, t) == {i \in DOMAIN table : table[i].trip = t}

Without(table, ids) == [i \in (DOMAIN table) \ ids |-> table[i]]

\* on_delete=SET_NULL of Expense.destination and TripLog.destination: the
\* rows of a table linked to one of the deleted Destinations ids lose the link.
SetNull(table, ids) ==
  [i \in DOMAIN table |->
     IF table[i].destination # Absent /\ table[i].destination[1] \in ids
       THEN [table[i] EXCEPT !.destination = Absent]
       ELSE table[i]]

With(table, id, row) == [i \in (DOMAIN table) \cup {id} |-> IF i = id THEN row ELSE table[i]]

\* The queryset that leaves the filter on the user out.
TripQuerysetOfAll(c) == DOMAIN trips

\* Trip.objects.filter(user=request.user)
TripQueryset(c) == {t \in DOMAIN trips : trips[t].user = c}

\* Sum("amount") over the rows ids of a table.
RECURSIVE SumAmount(_, _)
SumAmount(table, ids) ==
  IF ids = {} THEN 0
  ELSE LET i == CHOOSE j \in ids : TRUE
       IN table[i].amount + SumAmount(table, ids \ {i})

\* The total over the Expenses of every Trip.
total_expense_of_all(t) == SumAmount(expenses, DOMAIN expenses)

\* Trip.total_expense: the aggregate is None without rows, hence "or 0".
total_expense(t) == SumAmount(expenses, RowsOf(expenses, t))

\* The total over the Expenses of the Budget's trip, whatever their category.
spent_amount_of_trip(b) == SumAmount(expenses, RowsOf(expenses, b.trip))

\* Budget.spent_amount
spent_amount(b) ==
  SumAmount(expenses, {x \in RowsOf(expenses, b.trip) : expenses[x].category = b.category})

\* ------------------------------------------------- enums of trips/models.py
BudgetCategory == {"transport", "accommodation", "food", "attraction", "shopping", "other"}

VisitStatus == {"planned", "unplanned", "skipped"}

\* Expense.PaymentMethod
PaymentMethod == {"cash", "card", "other"}

\* ------------------------------------------------------ nested serializers
\* DestinationCreateSerializer: the model field is a PositiveIntegerField
\* (day >= 0) and validate_day rejects value < 1.
DestinationCreateErrors(d) == IF d.day < 1 THEN {<<"day", "min 1">>} ELSE {}

\* BudgetCreateSerializer: category is a choice field, the model field has
\* MinValueValidator(0) and validate_amount rejects value < 0.
BudgetCreateErrors(b) ==
  (IF b.category \notin BudgetCategory THEN {<<"category", "invalid choice">>} ELSE {})
    \cup (IF b.amount < 0 THEN {<<"amount", "min 0">>} ELSE {})

\* ---------------------------------------------------- TripCreateSerializer
\* validate(): end before start, then the span of more than MaxDuration days.
TripCreateValidate(start_date, end_date) ==
  IF end_date < start_date THEN {<<"end_date", "before start_date">>}
  ELSE IF (end_date - start_date) + 1 > MaxDuration THEN {<<"end_date", "span too long">>}
  ELSE {}

\* is_valid(): the field errors (the nested lists among them) come first and
\* validate() runs only when there are none.
TripCreateErrors(start_date, end_date, ds, bs) ==
  LET fieldErrors ==
        (IF \E i \in 1..Len(ds) : DestinationCreateErrors(ds[i]) # {}
           THEN {<<"destinations", "invalid item">>} ELSE {})
          \cup (IF \E i \in 1..Len(bs) : BudgetCreateErrors(bs[i]) # {}
                  THEN {<<"budgets", "invalid item">>} ELSE {})
  IN IF fieldErrors # {} THEN fieldErrors ELSE TripCreateValidate(start_date, end_date)

\* _create_day_plans / the loop of _update_day_plans: one row per date from
\* start_date to end_date, numbered from 1.
NewDayPlans(t, trip) ==
  {[trip |-> t, day_number |-> n, date |-> trip.start_date + (n - 1), memo |-> ""] :
     n \in 1..((trip.end_date - trip.start_date) + 1)}

\* Destination.objects.create(trip=trip, **dest_data) for each nested payload,
\* with primary keys from first + 1 on.
NestedDestinations(t, ds, first) ==
  [i \in (first + 1)..(first + Len(ds)) |->
     [trip |-> t, name |-> ds[i - first].name, day |-> ds[i - first].day,
      estimated_cost |-> ds[i - first].estimated_cost]]

\* The index of the first nested budget whose (trip, category) is already
\* taken by an earlier one: Budget.objects.create raises IntegrityError
\* there (unique_together). 0 when there is none.
FirstDuplicate(bs) ==
  LET dup == {j \in 1..Len(bs) : \E i \in 1..(j - 1) : bs[i].category = bs[j].category}
  IN IF dup = {} THEN 0 ELSE CHOOSE j \in dup : \A k \in dup : j <= k

NestedBudgets(t, bs, upto) ==
  {[trip |-> t, category |-> bs[i].category, amount |-> bs[i].amount] : i \in 1..upto}

\* TripCreateSerializer.create: the Trip row, the Destinations, the Budgets,
\* then the DayPlans. None of it runs in a transaction: when a Budget insert
\* raises, the rows written before it stay and the DayPlans are never made.
TripCreate(c, start_date, end_date, ds, bs) ==
  LET t == seq.trip + 1
      trip == [user |-> c, start_date |-> start_date, end_date |-> end_date]
      dup == FirstDuplicate(bs)
  IN /\ trips' = With(trips, t, trip)
     /\ destinations' = [i \in (DOMAIN destinations) \cup ((seq.destination + 1)..(seq.destination + Len(ds))) |->
                           IF i \in DOMAIN destinations THEN destinations[i]
                           ELSE NestedDestinations(t, ds, seq.destination)[i]]
     /\ seq' = [seq EXCEPT !.trip = t, !.destination = seq.destination + Len(ds)]
     /\ UNCHANGED <<expenses, logs, photos>>
     /\ IF dup = 0
          THEN /\ budgets' = budgets \cup NestedBudgets(t, bs, Len(bs))
               /\ day_plans' = day_plans \cup NewDayPlans(t, trip)
               /\ UNCHANGED requests
               /\ resp' = Response(201, {}, {t})
          ELSE /\ budgets' = budgets \cup NestedBudgets(t, bs, dup - 1)
               /\ day_plans' = day_plans
               /\ UNCHANGED requests
               /\ resp' = Response(500, {}, {})

\* TripViewSet.create
CreateTrip(c, start_date, end_date, ds, bs) ==
  LET errors == TripCreateErrors(start_date, end_date, ds, bs)
  IN IF errors # {}
       THEN Reply(400, errors, {})
       ELSE /\ seq.trip < MaxTrips
            /\ RowsInserted + Len(ds) <= MaxRows
            /\ TripCreate(c, start_date, end_date, ds, bs)

\* ---------------------------------------------------- TripUpdateSerializer
\* The validation that compares only the dates of the payload, as
\* TripCreateSerializer.validate does with attrs.get(...).
TripUpdateValidatePayloadOnly(instance, start_date, end_date) ==
  IF start_date # Absent /\ end_date # Absent /\ end_date[1] < start_date[1]
    THEN {<<"end_date", "before start_date">>} ELSE {}

\* validate(): a date the payload does not carry is taken from the instance.
TripUpdateValidate(instance, start_date, end_date) ==
  LET s == IF start_date # Absent THEN start_date[1] ELSE instance.start_date
      e == IF end_date # Absent THEN end_date[1] ELSE instance.end_date
  IN IF e < s THEN {<<"end_date", "before start_date">>} ELSE {}

\* is_valid(): a full update (PUT) requires both dates.
TripUpdateErrors(instance, partial, start_date, end_date) ==
  LET required ==
        IF partial THEN {}
        ELSE (IF start_date = Absent THEN {<<"start_date", "required">>} ELSE {})
               \cup (IF end_date = Absent THEN {<<"end_date", "required">>} ELSE {})
  IN IF required # {} THEN required
     ELSE TripUpdateValidate(instance, start_date, end_date)

\* _update_day_plans: trip.day_plans.all().delete(), then the creating loop.
UpdateDayPlans(t, trip) ==
  {dp \in day_plans : dp.trip # t} \cup NewDayPlans(t, trip)

\* An update that replaces the DayPlans whether or not a date changed.
TripUpdateAlwaysReplacing(t, start_date, end_date) ==
  LET old == trips[t]
      new == [old EXCEPT
                !.start_date = IF start_date # Absent THEN start_date[1] ELSE @,
                !.end_date = IF end_date # Absent THEN end_date[1] ELSE @]
  IN /\ trips' = [trips EXCEPT ![t] = new]
     /\ day_plans' = UpdateDayPlans(t, new)
     /\ UNCHANGED <<destinations, budgets, expenses, logs, photos, seq>>
     /\ UNCHANGED requests
     /\ resp' = Response(200, {}, {t})

\* TripUpdateSerializer.update: ModelSerializer.update sets the fields the
\* payload carries and saves; the DayPlans are replaced when a date changed.
TripUpdate(t, start_date, end_date) ==
  LET old == trips[t]
      new == [old EXCEPT
                !.start_date = IF start_date # Absent THEN start_date[1] ELSE @,
                !.end_date = IF end_date # Absent THEN end_date[1] ELSE @]
  IN /\ trips' = [trips EXCEPT ![t] = new]
     /\ day_plans' = IF old.start_date # new.start_date \/ old.end_date # new.end_date
                       THEN UpdateDayPlans(t, new)
                       ELSE day_plans
     /\ UNCHANGED <<destinations, budgets, expenses, logs, photos, seq>>
     /\ UNCHANGED requests
     /\ resp' = Response(200, {}, {t})

\* TripViewSet.update / partial_update
UpdateTrip(c, t, partial, start_date, end_date) ==
  IF t \notin TripQueryset(c)
    THEN Reply(404, {}, {})
    ELSE LET errors == TripUpdateErrors(trips[t], partial, start_date, end_date)
         IN IF errors # {}
              THEN Reply(400, errors, {})
              ELSE TripUpdate(t, start_date, end_date)

\* ------------------------------------------- a Trip update, query by query
\* The database runs in autocommit mode and neither the view nor the
\* serializer opens a transaction, so each query of a partial update commits
\* on its own and the queries of other workers run in between.
\* Worker w: get_object() loads the instance, is_valid() checks the payload
\* against it.
GetObject(w, c, t, start_date, end_date) ==
  /\ requests[w].pc = "idle"
  /\ IF t \notin TripQueryset(c)
       THEN Reply(404, {}, {})
       ELSE LET errors == TripUpdateErrors(trips[t], TRUE, start_date, end_date)
                old == trips[t]
                new == [old EXCEPT
                          !.start_date = IF start_date # Absent THEN start_date[1] ELSE @,
                          !.end_date = IF end_date # Absent THEN end_date[1] ELSE @]
            IN IF errors # {}
                 THEN Reply(400, errors, {})
                 ELSE /\ requests' = [requests EXCEPT
                                        ![w] = [pc |-> "save", trip |-> t, instance |-> new,
                                                replace |-> (old.start_date # new.start_date
                                                               \/ old.end_date # new.end_date),
                                                day_number |-> 1]]
                      /\ UNCHANGED <<store, resp>>

\* super().update(instance, validated_data): instance.save() writes the
\* fields of the loaded instance (an UPDATE, or an INSERT when the row is
\* gone); without a changed date the request ends here.
InstanceSave(w) ==
  LET r == requests[w]
  IN /\ r.pc = "save"
     /\ trips' = With(trips, r.trip, r.instance)
     /\ UNCHANGED <<day_plans, destinations, budgets, expenses, logs, photos, seq>>
     /\ IF r.replace
          THEN /\ requests' = [requests EXCEPT ![w].pc = "delete"]
               /\ UNCHANGED resp
          ELSE /\ requests' = [requests EXCEPT ![w] = Idle]
               /\ resp' = Response(200, {}, {r.trip})

\* _update_day_plans: trip.day_plans.all().delete()
DayPlansDelete(w) ==
  LET r == requests[w]
  IN /\ r.pc = "delete"
     /\ day_plans' = {dp \in day_plans : dp.trip # r.trip}
     /\ requests' = [requests EXCEPT ![w].pc = "create"]
     /\ UNCHANGED <<trips, destinations, budgets, expenses, logs, photos, seq, resp>>

\* _update_day_plans: one DayPlan.objects.create of the loop, which runs over
\* the dates of the instance. unique_together (trip, day_number) and the
\* foreign key to Trip raise IntegrityError, which ends the request with a
\* server error; after the last day the view answers 200.
DayPlanCreate(w) ==
  LET r == requests[w]
      n == r.day_number
  IN /\ r.pc = "create"
     /\ UNCHANGED <<trips, destinations, budgets, expenses, logs, photos, seq>>
     /\ IF r.trip \notin DOMAIN trips \/ \E dp \in day_plans : dp.trip = r.trip /\ dp.day_number = n
          THEN /\ day_plans' = day_plans
               /\ requests' = [requests EXCEPT ![w] = Idle]
               /\ resp' = Response(500, {}, {})
          ELSE /\ day_plans' = day_plans \cup {[trip |-> r.trip, day_number |-> n,
                                                 date |-> r.instance.start_date + (n - 1),
                                                 memo |-> ""]}
               /\ IF n < duration_days(r.instance)
                    THEN /\ requests' = [requests EXCEPT ![w].day_number = n + 1]
                         /\ UNCHANGED resp
                    ELSE /\ requests' = [requests EXCEPT ![w] = Idle]
                         /\ resp' = Response(200, {}, {r.trip})

\* TripViewSet.days: the DayPlans of the trip, as the response lists them.
Days(c, t) ==
  IF t \notin TripQueryset(c)
    THEN Reply(404, {}, {})
    ELSE /\ resp' = DataResponse(t, [kind |-> "days",
                                     days |-> {[day_number |-> dp.day_number, date |-> dp.date] :
                                                 dp \in {p \in day_plans : p.trip = t}}])
         /\ UNCHANGED <<store, requests>>

\* TripViewSet.destroy: on_delete=CASCADE on every foreign key to Trip, and
\* on TripLogPhoto.log; on_delete=SET_NULL on the destination of the Expenses
\* and TripLogs that stay.
DestroyTrip(c, t) ==
  IF t \notin TripQueryset(c)
    THEN Reply(404, {}, {})
    ELSE /\ trips' = Without(trips, {t})
         /\ day_plans' = {dp \in day_plans : dp.trip # t}
         /\ destinations' = Without(destinations, RowsOf(destinations, t))
         /\ budgets' = {b \in budgets : b.trip # t}
         /\ expenses' = SetNull(Without(expenses, RowsOf(expenses, t)), RowsOf(destinations, t))
         /\ logs' = SetNull(Without(logs, RowsOf(logs, t)), RowsOf(destinations, t))
         /\ photos' = {ph \in photos : ph.log \notin RowsOf(logs, t)}
         /\ UNCHANGED seq
         /\ UNCHANGED requests
         /\ resp' = Response(204, {}, {})

\* TripViewSet.retrieve and the GET actions on one trip (destinations, days,
\* budgets, budgets/summary, expenses, expenses/summary, logs, comparison):
\* each starts with self.get_object() and answers with data of that trip.
ReadTrip(c, t) ==
  IF t \notin TripQueryset(c)
    THEN Reply(404, {}, {})
    ELSE Reply(200, {}, {t})

\* TripViewSet.list
ListTrips(c) == Reply(200, {}, TripQueryset(c))

\* ------------------------------------------------------------ destinations
\* TripViewSet.add_destination. A payload without day gets the default 1,
\* which is the case day = 1 here.
AddDestination(c, t, name, day, estimated_cost) ==
  IF t \notin TripQueryset(c)
    THEN Reply(404, {}, {})
    ELSE LET errors == DestinationCreateErrors([day |-> day])
         IN IF errors # {}
              THEN Reply(400, errors, {})
              ELSE IF day > duration_days(trips[t])
                THEN Reply(400, {<<"message", "day beyond duration">>}, {})
                ELSE /\ RowsInserted < MaxRows
                     /\ destinations' = With(destinations, seq.destination + 1,
                                             [trip |-> t, name |-> name, day |-> day,
                                              estimated_cost |-> estimated_cost])
                     /\ seq' = [seq EXCEPT !.destination = @ + 1]
                     /\ UNCHANGED <<trips, day_plans, budgets, expenses, logs, photos>>
                     /\ UNCHANGED requests
                     /\ resp' = Response(201, {}, {t})

\* Destination.objects.filter(trip__user=request.user)
DestinationQueryset(c) ==
  {d \in DOMAIN destinations : trips[destinations[d].trip].user = c}

\* DestinationSerializer (the serializer of DestinationViewSet): day is the
\* model's PositiveIntegerField, so only day < 0 is refused.
DestinationErrors(day) ==
  IF day # Absent /\ day[1] < 0 THEN {<<"day", "min 0">>} ELSE {}

\* DestinationViewSet.update / partial_update
UpdateDestination(c, d, day) ==
  IF d \notin DestinationQueryset(c)
    THEN Reply(404, {}, {})
    ELSE LET errors == DestinationErrors(day)
         IN IF errors # {}
              THEN Reply(400, errors, {})
              ELSE /\ destinations' = [destinations EXCEPT
                                         ![d].day = IF day # Absent THEN day[1] ELSE @]
                   /\ UNCHANGED <<trips, day_plans, budgets, expenses, logs, photos, seq>>
                   /\ UNCHANGED requests
                   /\ resp' = Response(200, {}, {destinations[d].trip})

\* DestinationViewSet.destroy
DestroyDestination(c, d) ==
  IF d \notin DestinationQueryset(c)
    THEN Reply(404, {}, {})
    ELSE /\ destinations' = Without(destinations, {d})
         /\ expenses' = SetNull(expenses, {d})
         /\ logs' = SetNull(logs, {d})
         /\ UNCHANGED <<trips, day_plans, budgets, photos, seq>>
         /\ UNCHANGED requests
         /\ resp' = Response(204, {}, {})

\* DestinationViewSet.retrieve
RetrieveDestination(c, d) ==
  IF d \notin DestinationQueryset(c)
    THEN Reply(404, {}, {})
    ELSE Reply(200, {}, {destinations[d].trip})

\* DestinationViewSet.list
ListDestinations(c) ==
  Reply(200, {}, {destinations[d].trip : d \in DestinationQueryset(c)})

\* --------------------------------------------------------------- day plans
\* TripViewSet.update_day: DayPlanSerializer(partial=True) with memo,
\* day_number and date writable. The serializer has no trip field, so it
\* holds no uniqueness validator: a day_number another DayPlan of the trip
\* has makes the UPDATE raise IntegrityError.
UpdateDay(c, t, n, memo, day_number, date) ==
  IF t \notin TripQueryset(c)
    THEN Reply(404, {}, {})
    ELSE LET found == {dp \in day_plans : dp.trip = t /\ dp.day_number = n}
         IN IF found = {}
              THEN Reply(404, {}, {})
              ELSE LET old == CHOOSE dp \in found : TRUE
                       new == [old EXCEPT
                                 !.memo = IF memo # Absent THEN memo[1] ELSE @,
                                 !.day_number = IF day_number # Absent THEN day_number[1] ELSE @,
                                 !.date = IF date # Absent THEN date[1] ELSE @]
                   IN IF day_number # Absent /\ day_number[1] < 0
                        THEN Reply(400, {<<"day_number", "min 0">>}, {})
                        ELSE IF \E dp \in day_plans \ {old} :
                                  dp.trip = t /\ dp.day_number = new.day_number
                          THEN Reply(500, {}, {})
                          ELSE /\ day_plans' = (day_plans \ {old}) \cup {new}
                               /\ UNCHANGED <<trips, destinations, budgets, expenses, logs, photos, seq>>
                               /\ UNCHANGED requests
                               /\ resp' = Response(200, {}, {t})

\* ----------------------------------------------------------------- budgets
\* An upsert that looks the row up by trip alone.
UpdateOrCreateByTrip(t, category, amount) ==
  {b \in budgets : b.trip # t}
    \cup {[trip |-> t, category |-> category, amount |-> amount]}

\* Budget.objects.update_or_create(trip=trip, category=..., defaults=...):
\* the row with that (trip, category) gets the amount, or is created.
UpdateOrCreate(t, category, amount) ==
  {b \in budgets : ~(b.trip = t /\ b.category = category)}
    \cup {[trip |-> t, category |-> category, amount |-> amount]}

\* TripViewSet.set_budget
SetBudget(c, t, category, amount) ==
  IF t \notin TripQueryset(c)
    THEN Reply(404, {}, {})
    ELSE LET errors == BudgetCreateErrors([category |-> category, amount |-> amount])
             found == {b \in budgets : b.trip = t /\ b.category = category}
         IN IF errors # {}
              THEN Reply(400, errors, {})
              ELSE IF Cardinality(found) > 1
                THEN Reply(500, {}, {})
                ELSE /\ budgets' = UpdateOrCreate(t, category, amount)
                     /\ UNCHANGED <<trips, day_plans, destinations, expenses, logs, photos, seq>>
                     /\ UNCHANGED requests
                     /\ resp' = Response(IF found = {} THEN 201 ELSE 200, {}, {t})

\* ---------------------------------------------------------------- expenses
\* Expense.save / TripLog.save: day_number is derived only while it is NULL,
\* and only for a date not before the trip's start_date.
DeriveDayNumber(day_number, date, trip) ==
  IF day_number = Absent /\ date - trip.start_date >= 0
    THEN Given((date - trip.start_date) + 1)
    ELSE day_number

\* A validate_amount that lets a zero amount through.
ExpenseCreateValidateAmountFromZero(amount) ==
  IF amount < 0 THEN {<<"amount", "not positive">>} ELSE {}

\* ExpenseCreateSerializer.validate_amount (after the model's
\* MinValueValidator(0), an error on the same field).
ExpenseCreateValidateAmount(amount) ==
  IF amount <= 0 THEN {<<"amount", "not positive">>} ELSE {}

\* ExpenseCreateSerializer.validate
ExpenseCreateValidate(trip, expense_date) ==
  IF expense_date < trip.start_date \/ expense_date > trip.end_date
    THEN {<<"expense_date", "outside trip">>} ELSE {}

\* An is_valid() that accepts any category.
ExpenseCreateErrorsAnyCategory(trip, category, amount, expense_date, payment_method, destination) ==
  LET fieldErrors ==
        ExpenseCreateValidateAmount(amount)
          \cup (IF payment_method \notin PaymentMethod
                  THEN {<<"payment_method", "invalid choice">>} ELSE {})
          \cup (IF destination # Absent /\ destination[1] \notin DOMAIN destinations
                  THEN {<<"destination", "does not exist">>} ELSE {})
  IN IF fieldErrors # {} THEN fieldErrors ELSE ExpenseCreateValidate(trip, expense_date)

\* is_valid(): field errors first, validate() only when there are none.
\* payment_method is a choice field and destination a primary key among
\* Destination.objects.all().
ExpenseCreateErrors(trip, category, amount, expense_date, payment_method, destination) ==
  LET fieldErrors ==
        (IF category \notin BudgetCategory THEN {<<"category", "invalid choice">>} ELSE {})
          \cup ExpenseCreateValidateAmount(amount)
          \cup (IF payment_method \notin PaymentMethod
                  THEN {<<"payment_method", "invalid choice">>} ELSE {})
          \cup (IF destination # Absent /\ destination[1] \notin DOMAIN destinations
                  THEN {<<"destination", "does not exist">>} ELSE {})
  IN IF fieldErrors # {} THEN fieldErrors ELSE ExpenseCreateValidate(trip, expense_date)

\* TripViewSet.add_expense; a payload without payment_method gets the default
\* "card", which is the case payment_method = "card" here.
AddExpense(c, t, category, amount, expense_date, payment_method, destination) ==
  IF t \notin TripQueryset(c)
    THEN Reply(404, {}, {})
    ELSE LET errors == ExpenseCreateErrors(trips[t], category, amount, expense_date,
                                               payment_method, destination)
         IN IF errors # {}
              THEN Reply(400, errors, {})
              ELSE /\ RowsInserted < MaxRows
                   /\ expenses' = With(expenses, seq.expense + 1,
                                       [trip |-> t, category |-> category, amount |-> amount,
                                        expense_date |-> expense_date,
                                        day_number |-> DeriveDayNumber(Absent, expense_date, trips[t]),
                                        payment_method |-> payment_method,
                                        destination |-> destination])
                   /\ seq' = [seq EXCEPT !.expense = @ + 1]
                   /\ UNCHANGED <<trips, day_plans, destinations, budgets, logs, photos>>
                   /\ UNCHANGED requests
                   /\ resp' = Response(201, {}, {t})

\* Expense.objects.filter(trip__user=request.user)
ExpenseQueryset(c) ==
  {x \in DOMAIN expenses : trips[expenses[x].trip].user = c}

\* ExpenseSerializer (the serializer of ExpenseViewSet): amount carries only
\* the model's MinValueValidator(0); a full update requires amount and
\* expense_date; nothing compares expense_date with the trip.
ExpenseErrors(partial, amount, expense_date) ==
  (IF amount = Absent
     THEN (IF partial THEN {} ELSE {<<"amount", "required">>})
     ELSE (IF amount[1] < 0 THEN {<<"amount", "min 0">>} ELSE {}))
    \cup (IF expense_date = Absent /\ ~partial THEN {<<"expense_date", "required">>} ELSE {})

\* ExpenseViewSet.update / partial_update; Expense.save runs on the result.
UpdateExpense(c, x, partial, amount, expense_date) ==
  IF x \notin ExpenseQueryset(c)
    THEN Reply(404, {}, {})
    ELSE LET errors == ExpenseErrors(partial, amount, expense_date)
             old == expenses[x]
             set == [old EXCEPT
                       !.amount = IF amount # Absent THEN amount[1] ELSE @,
                       !.expense_date = IF expense_date # Absent THEN expense_date[1] ELSE @]
         IN IF errors # {}
              THEN Reply(400, errors, {})
              ELSE /\ expenses' = [expenses EXCEPT
                                     ![x] = [set EXCEPT
                                               !.day_number = DeriveDayNumber(set.day_number, set.expense_date,
                                                                              trips[old.trip])]]
                   /\ UNCHANGED <<trips, day_plans, destinations, budgets, logs, photos, seq>>
                   /\ UNCHANGED requests
                   /\ resp' = Response(200, {}, {old.trip})

\* ExpenseViewSet.destroy
DestroyExpense(c, x) ==
  IF x \notin ExpenseQueryset(c)
    THEN Reply(404, {}, {})
    ELSE /\ expenses' = Without(expenses, {x})
         /\ UNCHANGED <<trips, day_plans, destinations, budgets, logs, photos, seq>>
         /\ UNCHANGED requests
         /\ resp' = Response(204, {}, {})

\* ExpenseViewSet.retrieve
RetrieveExpense(c, x) ==
  IF x \notin ExpenseQueryset(c)
    THEN Reply(404, {}, {})
    ELSE Reply(200, {}, {expenses[x].trip})

\* ExpenseViewSet.list
ListExpenses(c) ==
  Reply(200, {}, {expenses[x].trip : x \in ExpenseQueryset(c)})

\* --------------------------------------------------------------- trip logs
\* TripLogCreateSerializer: visit_status is a choice field, rating is null or
\* within 1..5 (the model's validators and validate_rating); visit_date is
\* not compared with the trip; destination is a primary key among
\* Destination.objects.all().
TripLogCreateErrors(visit_status, rating, destination) ==
  (IF visit_status \notin VisitStatus THEN {<<"visit_status", "invalid choice">>} ELSE {})
    \cup (IF rating # Absent /\ (rating[1] < 1 \/ rating[1] > 5) THEN {<<"rating", "1 to 5">>} ELSE {})
    \cup (IF destination # Absent /\ destination[1] \notin DOMAIN destinations
            THEN {<<"destination", "does not exist">>} ELSE {})

\* TripLogCreateSerializer.create: one TripLogPhoto per url of the payload,
\* ordered from 0.
NewPhotos(l, photo_urls) ==
  {[log |-> l, image_url |-> photo_urls[i], order |-> i - 1] : i \in 1..Len(photo_urls)}

\* TripViewSet.add_log; TripLog.save derives day_number.
AddLog(c, t, place_name, visit_date, visit_status, rating, photo_urls, destination) ==
  IF t \notin TripQueryset(c)
    THEN Reply(404, {}, {})
    ELSE LET errors == TripLogCreateErrors(visit_status, rating, destination)
         IN IF errors # {}
              THEN Reply(400, errors, {})
              ELSE /\ RowsInserted < MaxRows
                   /\ logs' = With(logs, seq.log + 1,
                                   [trip |-> t, place_name |-> place_name, visit_date |-> visit_date,
                                    day_number |-> DeriveDayNumber(Absent, visit_date, trips[t]),
                                    visit_status |-> visit_status, rating |-> rating,
                                    destination |-> destination])
                   /\ photos' = photos \cup NewPhotos(seq.log + 1, photo_urls)
                   /\ seq' = [seq EXCEPT !.log = @ + 1]
                   /\ UNCHANGED <<trips, day_plans, destinations, budgets, expenses>>
                   /\ UNCHANGED requests
                   /\ resp' = Response(201, {}, {t})

\* TripLog.objects.filter(trip__user=request.user)
TripLogQueryset(c) ==
  {l \in DOMAIN logs : trips[logs[l].trip].user = c}

\* A TripLogSerializer whose rating may be 0.
TripLogErrorsRatingFromZero(visit_status, rating) ==
  (IF visit_status # Absent /\ visit_status[1] \notin VisitStatus
     THEN {<<"visit_status", "invalid choice">>} ELSE {})
    \cup (IF rating # Absent /\ rating[1] # Absent /\ (rating[1][1] < 0 \/ rating[1][1] > 5)
            THEN {<<"rating", "1 to 5">>} ELSE {})

\* TripLogSerializer (the serializer of TripLogViewSet): visit_status is a
\* choice field; rating may be null and otherwise carries the model's
\* validators (1 to 5).
TripLogErrors(visit_status, rating) ==
  (IF visit_status # Absent /\ visit_status[1] \notin VisitStatus
     THEN {<<"visit_status", "invalid choice">>} ELSE {})
    \cup (IF rating # Absent /\ rating[1] # Absent /\ (rating[1][1] < 1 \/ rating[1][1] > 5)
            THEN {<<"rating", "1 to 5">>} ELSE {})

\* TripLogViewSet.update / partial_update; TripLog.save runs on the result.
\* rating is Absent when the payload has no rating, Given(Absent) for a null
\* and Given(Given(r)) for a number.
UpdateLog(c, l, visit_date, visit_status, rating) ==
  IF l \notin TripLogQueryset(c)
    THEN Reply(404, {}, {})
    ELSE LET errors == TripLogErrors(visit_status, rating)
             old == logs[l]
             set == [old EXCEPT
                       !.visit_date = IF visit_date # Absent THEN visit_date[1] ELSE @,
                       !.visit_status = IF visit_status # Absent THEN visit_status[1] ELSE @,
                       !.rating = IF rating # Absent THEN rating[1] ELSE @]
         IN IF errors # {}
              THEN Reply(400, errors, {})
              ELSE /\ logs' = [logs EXCEPT
                                 ![l] = [set EXCEPT
                                           !.day_number = DeriveDayNumber(set.day_number, set.visit_date,
                                                                          trips[old.trip])]]
                   /\ UNCHANGED <<trips, day_plans, destinations, budgets, expenses, photos, seq>>
                   /\ UNCHANGED requests
                   /\ resp' = Response(200, {}, {old.trip})

\* TripLogViewSet.destroy
DestroyLog(c, l) ==
  IF l \notin TripLogQueryset(c)
    THEN Reply(404, {}, {})
    ELSE /\ logs' = Without(logs, {l})
         /\ photos' = {ph \in photos : ph.log # l}
         /\ UNCHANGED <<trips, day_plans, destinations, budgets, expenses, seq>>
         /\ UNCHANGED requests
         /\ resp' = Response(204, {}, {})

\* TripLogViewSet.retrieve
RetrieveLog(c, l) ==
  IF l \notin TripLogQueryset(c)
    THEN Reply(404, {}, {})
    ELSE Reply(200, {}, {logs[l].trip})

\* TripLogViewSet.list
ListLogs(c) ==
  Reply(200, {}, {logs[l].trip : l \in TripLogQueryset(c)})

\* ------------------------------------------------------ computed amounts
\* aggregate(total=Sum("amount")) over a set of Budget rows.
RECURSIVE SumBudgets(_)
SumBudgets(rows) ==
  IF rows = {} THEN 0
  ELSE LET b == CHOOSE r \in rows : TRUE
       IN b.amount + SumBudgets(rows \ {b})

\* aggregate(total=Sum("estimated_cost")) over the rows ids of destinations.
RECURSIVE SumEstimatedCost(_)
SumEstimatedCost(ids) ==
  IF ids = {} THEN 0
  ELSE LET i == CHOOSE j \in ids : TRUE
       IN destinations[i].estimated_cost + SumEstimatedCost(ids \ {i})

\* Trip.total_budget
total_budget(t) == SumBudgets({b \in budgets : b.trip = t})

\* Trip.total_estimated_cost
total_estimated_cost(t) == SumEstimatedCost(RowsOf(destinations, t))

\* Trip.budget_remaining
budget_remaining(t) == total_budget(t) - total_expense(t)

\* Budget.remaining_amount
remaining_amount(b) == b.amount - spent_amount(b)

\* ---------------------------------------------------------- percentages
\* A percentage is held in tenths of a percent (50.0 is 500), wrapped by
\* Given; a division by zero raises instead of giving a number.
ZeroDivisionError == <<>>

\* round(x, 1) of the quotient x = n / d in tenths, for n >= 0 and d > 0:
\* to the nearest tenth, a tie to the even one.
RoundHalfEven(n, d) ==
  LET q == n \div d
      r == n % d
  IN IF 2 * r < d THEN q
     ELSE IF 2 * r > d THEN q + 1
     ELSE IF q % 2 = 0 THEN q ELSE q + 1

\* round(n / d * 100, 1)
Percent(n, d) ==
  IF d = 0 THEN ZeroDivisionError ELSE Given(RoundHalfEven(1000 * n, d))

\* The usage computed without looking at total_budget first.
budget_usage_percent_unguarded(t) == Percent(total_expense(t), total_budget(t))

\* Trip.budget_usage_percent
budget_usage_percent(t) ==
  IF total_budget(t) = 0 THEN Given(0)
  ELSE Percent(total_expense(t), total_budget(t))

\* Budget.usage_percent
usage_percent(b) ==
  IF b.amount = 0 THEN Given(0)
  ELSE Percent(spent_amount(b), b.amount)

\* BudgetSerializer(budget).data
BudgetData(b) ==
  [category |-> b.category, amount |-> b.amount, spent_amount |-> spent_amount(b),
   remaining_amount |-> remaining_amount(b), usage_percent |-> usage_percent(b)]

\* BudgetSerializer(trip.budgets.all(), many=True).data
BudgetsData(t) == {BudgetData(b) : b \in {r \in budgets : r.trip = t}}

\* An exception of the handler that nothing catches: a server error.
Raises(percents) == ZeroDivisionError \in percents

\* TripViewSet.budgets (GET)
ListBudgets(c, t) ==
  IF t \notin TripQueryset(c)
    THEN Reply(404, {}, {})
    ELSE IF Raises({d.usage_percent : d \in BudgetsData(t)})
      THEN Reply(500, {}, {})
      ELSE /\ resp' = DataResponse(t, [kind |-> "budgets", budgets |-> BudgetsData(t)])
           /\ UNCHANGED <<store, requests>>

\* ------------------------------------------------------- expense summary
\* get_category_display(): the label of the category (the Korean labels of
\* BudgetCategory, written in Latin letters).
CategoryDisplay ==
  [transport |-> "gyotong", accommodation |-> "sukso", food |-> "sikbi",
   attraction |-> "gwangwang/ipjangnyo", shopping |-> "syoping", other |-> "gita"]

\* get_payment_method_display(): the labels of Expense.PaymentMethod.
PaymentMethodDisplay == [cash |-> "hyeongeum", card |-> "kadeu", other |-> "gita"]

\* The key of by_day for the Expenses without a day ("mibunryu" in the code).
Unclassified == "mibunryu"

\* f"Day {exp.day_number}" if exp.day_number else the unclassified key: a
\* day_number of None or of 0 is falsy.
DayKey(day_number) ==
  IF day_number # Absent /\ day_number[1] # 0
    THEN "Day " \o ToString(day_number[1])
    ELSE Unclassified

CategoryKey(exp) == CategoryDisplay[exp.category]

DayKeyOf(exp) == DayKey(exp.day_number)

PaymentKey(exp) == PaymentMethodDisplay[exp.payment_method]

\* A grouping that keeps, under each key, the amount of one Expense only.
GroupedAmountsOfOne(t, key) ==
  LET ids == RowsOf(expenses, t)
  IN [k \in {key[x] : x \in ids} |-> expenses[CHOOSE x \in ids : key[x] = k].amount]

\* The loop of expense_summary for one of its dictionaries:
\* d[key] = d.get(key, 0) + float(exp.amount) over trip.expenses.all(), where
\* key[x] is the key of Expense x.
GroupedAmounts(t, key) ==
  LET ids == RowsOf(expenses, t)
  IN [k \in {key[x] : x \in ids} |-> SumAmount(expenses, {x \in ids : key[x] = k})]

\* An expense_summary whose dictionaries keep one Expense per key.
ExpenseSummaryOfOne(c, t) ==
  IF t \notin TripQueryset(c)
    THEN Reply(404, {}, {})
    ELSE /\ resp' = DataResponse(t,
                      [kind |-> "expense_summary",
                       total |-> total_expense(t),
                       by_category |-> GroupedAmountsOfOne(t, [x \in RowsOf(expenses, t) |-> CategoryKey(expenses[x])]),
                       by_day |-> GroupedAmountsOfOne(t, [x \in RowsOf(expenses, t) |-> DayKeyOf(expenses[x])]),
                       by_payment_method |-> GroupedAmountsOfOne(t, [x \in RowsOf(expenses, t) |-> PaymentKey(expenses[x])])])
         /\ UNCHANGED <<store, requests>>

\* TripViewSet.expense_summary
ExpenseSummary(c, t) ==
  IF t \notin TripQueryset(c)
    THEN Reply(404, {}, {})
    ELSE /\ resp' = DataResponse(t,
                      [kind |-> "expense_summary",
                       total |-> total_expense(t),
                       by_category |-> GroupedAmounts(t, [x \in RowsOf(expenses, t) |-> CategoryKey(expenses[x])]),
                       by_day |-> GroupedAmounts(t, [x \in RowsOf(expenses, t) |-> DayKeyOf(expenses[x])]),
                       by_payment_method |-> GroupedAmounts(t, [x \in RowsOf(expenses, t) |-> PaymentKey(expenses[x])])])
         /\ UNCHANGED <<store, requests>>

\* A budget_summary that stores a Budget of 0 for the category "other" when
\* the trip has none (get_or_create).
BudgetSummaryGetOrCreate(c, t) ==
  IF t \notin TripQueryset(c)
    THEN Reply(404, {}, {})
    ELSE /\ budgets' = IF \E b \in budgets : b.trip = t /\ b.category = "other"
                          THEN budgets
                          ELSE budgets \cup {[trip |-> t, category |-> "other", amount |-> 0]}
         /\ UNCHANGED <<trips, day_plans, destinations, expenses, logs, photos, seq, requests>>
         /\ resp' = DataResponse(t,
                      [kind |-> "budget_summary",
                       total_budget |-> total_budget(t),
                       total_expense |-> total_expense(t),
                       total_estimated_cost |-> total_estimated_cost(t),
                       remaining |-> budget_remaining(t),
                       usage_percent |-> budget_usage_percent(t),
                       by_category |-> BudgetsData(t)])

\* TripViewSet.budget_summary
BudgetSummary(c, t) ==
  IF t \notin TripQueryset(c)
    THEN Reply(404, {}, {})
    ELSE IF Raises({budget_usage_percent(t)} \cup {d.usage_percent : d \in BudgetsData(t)})
      THEN Reply(500, {}, {})
      ELSE /\ resp' = DataResponse(t,
                        [kind |-> "budget_summary",
                         total_budget |-> total_budget(t),
                         total_expense |-> total_expense(t),
                         total_estimated_cost |-> total_estimated_cost(t),
                         remaining |-> budget_remaining(t),
                         usage_percent |-> budget_usage_percent(t),
                         by_category |-> BudgetsData(t)])
           /\ UNCHANGED <<store, requests>>

\* -------------------------------------------------------------- comparison
\* BudgetCategory.choices, in the order of the enum.
BudgetCategoryChoices ==
  <<"transport", "accommodation", "food", "attraction", "shopping", "other">>

\* One entry of budget_comparison: the Budget of the category (first(), 0
\* without a row), the total of the Expenses of the category, their
\* difference, and the usage when the budget is positive.
BudgetComparisonEntry(t, category) ==
  LET found == {b \in budgets : b.trip = t /\ b.category = category}
      budget_amount == IF found = {} THEN 0 ELSE (CHOOSE b \in found : TRUE).amount
      expense_total ==
        SumAmount(expenses, {x \in RowsOf(expenses, t) : expenses[x].category = category})
  IN [category |-> category,
      budget |-> budget_amount,
      actual |-> expense_total,
      difference |-> budget_amount - expense_total,
      usage_percent |-> IF budget_amount > 0 THEN Percent(expense_total, budget_amount)
                        ELSE Given(0)]

\* A budget_comparison with an entry for the categories that have a Budget
\* row only.
budget_comparison_of_budgets(t) ==
  LET HasBudget(category) == \E b \in budgets : b.trip = t /\ b.category = category
      categories == SelectSeq(BudgetCategoryChoices, HasBudget)
  IN [i \in 1..Len(categories) |-> BudgetComparisonEntry(t, categories[i])]

\* budget_comparison: one entry appended per member of BudgetCategory.choices.
budget_comparison(t) ==
  [i \in 1..Len(BudgetCategoryChoices) |-> BudgetComparisonEntry(t, BudgetCategoryChoices[i])]

\* planned: the names of the Destinations of the trip on that day.
planned_places(t, n) ==
  {destinations[d].name : d \in {i \in RowsOf(destinations, t) : destinations[i].day = n}}

\* The place names of the TripLogs of the trip on that day, whatever their
\* visit_status.
actual_places_of_any_status(t, n) ==
  {logs[l].place_name : l \in {i \in RowsOf(logs, t) : logs[i].day_number = Given(n)}}

\* actual_visited: the place names of the TripLogs of the trip on that day
\* whose visit_status is planned or unplanned.
actual_places(t, n) ==
  {logs[l].place_name :
     l \in {i \in RowsOf(logs, t) :
              /\ logs[i].day_number = Given(n)
              /\ logs[i].visit_status \in {"planned", "unplanned"}}}

\* An entry that lists every planned place as skipped.
ScheduleEntryAllSkipped(t, dp) ==
  LET planned == planned_places(t, dp.day_number)
      actual_visited == actual_places(t, dp.day_number)
  IN [day_number |-> dp.day_number,
      date |-> dp.date,
      planned_count |-> Cardinality(planned),
      actual_count |-> Cardinality(actual_visited),
      planned_places |-> planned,
      actual_places |-> actual_visited,
      visited_as_planned |-> planned \cap actual_visited,
      skipped |-> planned,
      unplanned_visits |-> actual_visited \ planned]

\* One entry of schedule_comparison, for DayPlan dp.
ScheduleEntry(t, dp) ==
  LET planned == planned_places(t, dp.day_number)
      actual_visited == actual_places(t, dp.day_number)
  IN [day_number |-> dp.day_number,
      date |-> dp.date,
      planned_count |-> Cardinality(planned),
      actual_count |-> Cardinality(actual_visited),
      planned_places |-> planned,
      actual_places |-> actual_visited,
      visited_as_planned |-> planned \cap actual_visited,
      skipped |-> planned \ actual_visited,
      unplanned_visits |-> actual_visited \ planned]

\* schedule_comparison: one entry per DayPlan of the trip.
schedule_comparison(t) == {ScheduleEntry(t, dp) : dp \in {p \in day_plans : p.trip = t}}

\* The TripLogs of trip t with the given visit_status.
LogsWithStatus(t, visit_status) ==
  {l \in RowsOf(logs, t) : logs[l].visit_status = visit_status}

\* The sum of the ratings of the TripLogs ids.
RECURSIVE SumRating(_)
SumRating(ids) ==
  IF ids = {} THEN 0
  ELSE LET l == CHOOSE i \in ids : TRUE
       IN logs[l].rating[1] + SumRating(ids \ {l})

\* A rate that counts the unplanned visits too.
plan_completion_rate_of_visits(t) ==
  LET total_planned == Cardinality(RowsOf(destinations, t))
      visited == Cardinality(LogsWithStatus(t, "planned")) + Cardinality(LogsWithStatus(t, "unplanned"))
  IN IF total_planned > 0 THEN Percent(visited, total_planned) ELSE Given(0)

\* "plan_completion_rate": the rounded rate when there are Destinations.
plan_completion_rate(t) ==
  LET total_planned == Cardinality(RowsOf(destinations, t))
      planned_visited == Cardinality(LogsWithStatus(t, "planned"))
  IN IF total_planned > 0 THEN Percent(planned_visited, total_planned) ELSE Given(0)

\* "average_rating": Avg("rating") over the logs with a rating is None
\* without such a log; round(avg_rating, 1) if avg_rating else None, in
\* tenths.
average_rating(t) ==
  LET rated == {l \in RowsOf(logs, t) : logs[l].rating # Absent}
  IN IF rated = {} \/ SumRating(rated) = 0 THEN Absent
     ELSE Given(RoundHalfEven(10 * SumRating(rated), Cardinality(rated)))

\* summary
ComparisonSummary(t) ==
  [total_budget |-> total_budget(t),
   total_expense |-> total_expense(t),
   budget_remaining |-> budget_remaining(t),
   budget_usage_percent |-> budget_usage_percent(t),
   total_estimated_cost |-> total_estimated_cost(t),
   estimated_vs_actual_diff |-> total_estimated_cost(t) - total_expense(t),
   total_planned_places |-> Cardinality(RowsOf(destinations, t)),
   total_visited_places |->
     Cardinality(LogsWithStatus(t, "planned")) + Cardinality(LogsWithStatus(t, "unplanned")),
   planned_and_visited |-> Cardinality(LogsWithStatus(t, "planned")),
   unplanned_visits |-> Cardinality(LogsWithStatus(t, "unplanned")),
   plan_completion_rate |-> plan_completion_rate(t),
   average_rating |-> average_rating(t)]

\* TripViewSet.comparison
Comparison(c, t) ==
  IF t \notin TripQueryset(c)
    THEN Reply(404, {}, {})
    ELSE IF Raises({budget_comparison(t)[i].usage_percent : i \in 1..Len(budget_comparison(t))}
                     \cup {budget_usage_percent(t), plan_completion_rate(t)})
      THEN Reply(500, {}, {})
      ELSE /\ resp' = DataResponse(t,
                        [kind |-> "comparison",
                         budget_comparison |-> budget_comparison(t),
                         schedule_comparison |-> schedule_comparison(t),
                         summary |-> ComparisonSummary(t)])
           /\ UNCHANGED <<store, requests>>

\* --------------------------------------------------------- request inputs
NoDestinations == <<>>

NoBudgets == <<>>

\* Nested destination lists of a trip creation: none, one on day 0, 1 or 2.
NestedDestinationInputs ==
  {NoDestinations} \cup {<<[name |-> "Beach", day |-> d, estimated_cost |-> 1]>> : d \in {0, 1, 2}}

\* The first two days, for the requests whose outcome no longer span decides.
ShortDates == {1, 2}

\* ---------------------------------------------------- requests by resource
\* The requests of caller c that add a row to trip t.
TripAddition(c, t) ==
  \/ \E day \in {0, 1, 2} : AddDestination(c, t, "Beach", day, 1)
  \/ \E amount \in {0, 1} : AddExpense(c, t, "food", amount, 1, "card", Absent)
  \/ \E rating \in {Absent, Given(6)} : AddLog(c, t, "Beach", 1, "planned", rating, <<"url">>, Absent)

\* The other requests caller c addresses to trip t.
TripRequest(c, t) ==
  \/ \E partial \in BOOLEAN, e \in Optional({2}) : UpdateTrip(c, t, partial, Given(2), e)
  \/ DestroyTrip(c, t)
  \/ ReadTrip(c, t)
  \/ \E n \in Optional({2}) : UpdateDay(c, t, 1, Given("note"), n, Absent)
  \/ \E amount \in {-1, 1} : SetBudget(c, t, "food", amount)

\* The requests caller c addresses to destination d.
DestinationRequest(c, d) ==
  \/ \E day \in Optional({-1, 2}) : UpdateDestination(c, d, day)
  \/ DestroyDestination(c, d)
  \/ RetrieveDestination(c, d)

\* The requests caller c addresses to expense x.
ExpenseRequest(c, x) ==
  \/ \E partial \in BOOLEAN, amount \in Optional({0}) : UpdateExpense(c, x, partial, amount, Given(2))
  \/ DestroyExpense(c, x)
  \/ RetrieveExpense(c, x)

\* The requests caller c addresses to trip log l.
LogRequest(c, l) ==
  \/ \E status \in {Given("skipped"), Given("seen")} : UpdateLog(c, l, Given(2), status, Absent)
  \/ DestroyLog(c, l)
  \/ RetrieveLog(c, l)

\* The requests that name no stored row.
CollectionRequest(c) ==
  \/ \E e \in ShortDates : CreateTrip(c, 1, e, NoDestinations, NoBudgets)
  \/ ListTrips(c)
  \/ ListDestinations(c)
  \/ ListExpenses(c)
  \/ ListLogs(c)

Next ==
  \E c \in Users :
    \/ CollectionRequest(c)
    \/ \E t \in 1..MaxTrips : TripAddition(c, t) \/ TripRequest(c, t)
    \/ \E d \in 1..MaxRows : DestinationRequest(c, d)
    \/ \E x \in 1..MaxRows : ExpenseRequest(c, x)
    \/ \E l \in 1..MaxRows : LogRequest(c, l)

Spec == Init /\ [][Next]_vars

\* ------------------------------------------------------------- ownership
\* A list request of caller c.
ListRequest(c) ==
  \/ ListTrips(c)
  \/ ListDestinations(c)
  \/ ListExpenses(c)
  \/ ListLogs(c)

\* The requests of caller c that add a row to trip t, with a valid payload.
ValidAddition(c, t) ==
  \/ AddDestination(c, t, "Beach", 1, 1)
  \/ AddExpense(c, t, "food", 1, 1, "card", Absent)
  \/ AddLog(c, t, "Beach", 1, "planned", Absent, <<>>, Absent)

\* Every caller creates trips, adds rows to them and lists; every other
\* request is made by a caller on a row that is not among the caller's.
NextForeign ==
  \E c \in Users :
    \/ CreateTrip(c, 1, 1, NoDestinations, NoBudgets)
    \/ ListRequest(c)
    \/ \E t \in 1..MaxTrips : ValidAddition(c, t)
    \/ \E t \in 1..MaxTrips : t \notin TripQueryset(c) /\ TripRequest(c, t)
    \/ \E d \in 1..MaxRows : d \notin DestinationQueryset(c) /\ DestinationRequest(c, d)
    \/ \E x \in 1..MaxRows : x \notin ExpenseQueryset(c) /\ ExpenseRequest(c, x)
    \/ \E l \in 1..MaxRows : l \notin TripLogQueryset(c) /\ LogRequest(c, l)

SpecForeign == Init /\ [][NextForeign]_vars

\* A request of caller c addressed to a Trip of another user, or to a
\* Destination, Expense or TripLog of such a Trip.
ForeignRequest(c) ==
  \/ \E t \in DOMAIN trips :
       (trips[t].user # c) /\ (ValidAddition(c, t) \/ TripRequest(c, t))
  \/ \E d \in DOMAIN destinations :
       (trips[destinations[d].trip].user # c) /\ DestinationRequest(c, d)
  \/ \E x \in DOMAIN expenses :
       (trips[expenses[x].trip].user # c) /\ ExpenseRequest(c, x)
  \/ \E l \in DOMAIN logs :
       (trips[logs[l].trip].user # c) /\ LogRequest(c, l)

Owner == "alice"

\* Nested budget lists: none, and two of the same category.
FewNestedBudgetInputs ==
  {NoBudgets, <<[category |-> "food", amount |-> 1], [category |-> "food", amount |-> 2]>>}

\* Creations and updates (PUT and PATCH) over the first two days.
NextTrip ==
  \/ \E s \in ShortDates, e \in ShortDates, bs \in FewNestedBudgetInputs :
       CreateTrip(Owner, s, e, NoDestinations, bs)
  \/ \E t \in 1..MaxTrips, partial \in BOOLEAN,
        s \in Optional(ShortDates), e \in Optional(ShortDates) :
       UpdateTrip(Owner, t, partial, s, e)

SpecTrip == Init /\ [][NextTrip]_vars

\* Creations and partial updates over spans of up to MaxDuration + 1 days.
NextTripSpan ==
  \/ \E s \in Dates, e \in Dates : CreateTrip(Owner, s, e, NoDestinations, NoBudgets)
  \/ \E t \in 1..MaxTrips, s \in Optional(Dates), e \in Optional(Dates) :
       UpdateTrip(Owner, t, TRUE, s, e)

SpecTripSpan == Init /\ [][NextTripSpan]_vars

DayPlansOf(t) == {dp \in day_plans : dp.trip = t}

\* C1: every Trip has exactly one DayPlan per day_number in
\* 1..duration_days, and the DayPlan numbered n is dated start_date + (n - 1).
DayPlansMatchDateRange ==
  \A t \in DOMAIN trips :
    /\ \A n \in 1..duration_days(trips[t]) :
         Cardinality({dp \in DayPlansOf(t) : dp.day_number = n}) = 1
    /\ \A dp \in DayPlansOf(t) :
         /\ dp.day_number \in 1..duration_days(trips[t])
         /\ dp.date = trips[t].start_date + (dp.day_number - 1)

\* The dates a trip update would leave on the trip.
DatesAfter(trip, start_date, end_date) ==
  [start_date |-> IF start_date # Absent THEN start_date[1] ELSE trip.start_date,
   end_date |-> IF end_date # Absent THEN end_date[1] ELSE trip.end_date]

\* A creation or an update (full or partial) that asks for an end_date
\* before the start_date.
EndBeforeStartRequest ==
  \/ \E s \in ShortDates, e \in ShortDates, bs \in FewNestedBudgetInputs :
       (e < s) /\ CreateTrip(Owner, s, e, NoDestinations, bs)
  \/ \E t \in DOMAIN trips, partial \in BOOLEAN,
        s \in Optional(ShortDates), e \in Optional(ShortDates) :
       (DatesAfter(trips[t], s, e).end_date < DatesAfter(trips[t], s, e).start_date)
         /\ UpdateTrip(Owner, t, partial, s, e)

\* C2: every stored Trip has end_date >= start_date, and a creation or an
\* update (full or partial) that would store an end_date before the
\* start_date is answered 400 and changes neither the Trips nor the DayPlans.
EndNotBeforeStart ==
  [][/\ \A t \in DOMAIN trips' : trips'[t].end_date >= trips'[t].start_date
     /\ EndBeforeStartRequest => (resp'.status = 400 /\ UNCHANGED <<trips, day_plans>>)]_vars

\* A write was refused for an end_date before the start_date while a Trip
\* of more than one day is stored.
EndBeforeStartRefused ==
  /\ resp.status = 400
  /\ <<"end_date", "before start_date">> \in resp.errors
  /\ \E t \in DOMAIN trips : trips[t].end_date > trips[t].start_date

\* C3: every stored Trip spans at most MaxDuration days.
SpanAtMostMaxDuration ==
  \A t \in DOMAIN trips : duration_days(trips[t]) <= MaxDuration

\* C5: a write that does not succeed changes nothing that is stored.
FailedWriteChangesNothing ==
  [][resp'.status \in {400, 404, 500} => UNCHANGED store]_vars

\* ------------------------------------------------------------ destinations
NextDestination ==
  \/ \E s \in ShortDates, e \in ShortDates, ds \in NestedDestinationInputs :
       CreateTrip(Owner, s, e, ds, NoBudgets)
  \/ \E t \in 1..MaxTrips, s \in Optional(ShortDates), e \in Optional(ShortDates) :
       UpdateTrip(Owner, t, TRUE, s, e)
  \/ \E t \in 1..MaxTrips, day \in {0, 1, 2} : AddDestination(Owner, t, "Beach", day, 1)
  \/ \E d \in 1..MaxRows, day \in Optional({-1, 0, 1, 2}) : UpdateDestination(Owner, d, day)

SpecDestination == Init /\ [][NextDestination]_vars

\* C4: every Destination has 1 <= day <= duration_days of its Trip.
DestinationDayWithinTrip ==
  \A d \in DOMAIN destinations :
    /\ 1 <= destinations[d].day
    /\ destinations[d].day <= duration_days(trips[destinations[d].trip])

\* ----------------------------------------------------------------- budgets
BudgetCategoryInputs == {"food", "transport", "snacks"}

BudgetAmountInputs == {-1, 0, 1}

NextBudget ==
  \/ \E bs \in FewNestedBudgetInputs : CreateTrip(Owner, 1, 1, NoDestinations, bs)
  \/ \E t \in 1..MaxTrips, category \in BudgetCategoryInputs, amount \in BudgetAmountInputs :
       SetBudget(Owner, t, category, amount)

SpecBudget == Init /\ [][NextBudget]_vars

BudgetsOf(rows, t, category) == {b \in rows : b.trip = t /\ b.category = category}

\* A set_budget on trip t that is not answered 200 or 201.
SetBudgetRefused(t) ==
  \E category \in BudgetCategoryInputs, amount \in BudgetAmountInputs :
    SetBudget(Owner, t, category, amount) /\ resp'.status \notin {200, 201}

\* C7: there is at most one Budget per (trip, category); the Budgets of a
\* (trip, category) change only by a set_budget for that trip and category,
\* which leaves one Budget holding the amount it was given; a set_budget
\* that is refused changes no Budget.
BudgetUpsert ==
  [][/\ \A b1 \in budgets', b2 \in budgets' :
          (b1.trip = b2.trip /\ b1.category = b2.category) => b1 = b2
     /\ \A t \in DOMAIN trips, category \in BudgetCategory :
          BudgetsOf(budgets', t, category) # BudgetsOf(budgets, t, category)
            => \E amount \in BudgetAmountInputs :
                 /\ SetBudget(Owner, t, category, amount)
                 /\ resp'.status \in {200, 201}
                 /\ BudgetsOf(budgets', t, category) =
                      {[trip |-> t, category |-> category, amount |-> amount]}
     /\ \A t \in DOMAIN trips : budgets' # budgets => ~SetBudgetRefused(t)]_vars

\* A set_budget replaced the amount of a Budget of a Trip that has Budgets
\* of two categories, while another Trip has a Budget too.
BudgetReplaced ==
  /\ resp.status = 200
  /\ \E t \in DOMAIN trips, u \in DOMAIN trips :
       /\ t # u
       /\ BudgetsOf(budgets, t, "food") # {}
       /\ BudgetsOf(budgets, t, "transport") # {}
       /\ \E b \in budgets : b.trip = u
       /\ \E b \in BudgetsOf(budgets, t, "food") : b.amount = 0

\* ---------------------------------------------------------------- expenses
ExpenseCategoryInputs == {"food", "snacks"}

ExpenseAmountInputs == {-1, 0, 1}

\* add_expense alone, on trips created with a food budget.
FoodBudget == <<[category |-> "food", amount |-> 2]>>

NextAddExpense ==
  \/ \E s \in ShortDates, e \in ShortDates : CreateTrip(Owner, s, e, NoDestinations, FoodBudget)
  \/ \E t \in 1..MaxTrips, category \in ExpenseCategoryInputs,
        amount \in ExpenseAmountInputs, date \in ShortDates :
       AddExpense(Owner, t, category, amount, date, "card", Absent)

SpecAddExpense == Init /\ [][NextAddExpense]_vars

\* add_expense, the expense endpoint and trip updates.
NextExpense ==
  \/ \E s \in ShortDates, e \in ShortDates : CreateTrip(Owner, s, e, NoDestinations, NoBudgets)
  \/ \E t \in 1..MaxTrips, s \in Optional(ShortDates), e \in Optional(ShortDates) :
       UpdateTrip(Owner, t, TRUE, s, e)
  \/ \E t \in 1..MaxTrips, amount \in ExpenseAmountInputs, date \in ShortDates :
       AddExpense(Owner, t, "food", amount, date, "card", Absent)
  \/ \E x \in 1..MaxRows, partial \in BOOLEAN,
        amount \in Optional({-1, 0}), date \in Optional({2}) :
       UpdateExpense(Owner, x, partial, amount, date)

SpecExpense == Init /\ [][NextExpense]_vars

\* An add_expense on trip t with a zero or negative amount.
NonPositiveAddExpense(t) ==
  \E category \in ExpenseCategoryInputs, amount \in ExpenseAmountInputs, date \in ShortDates :
    (amount <= 0) /\ AddExpense(Owner, t, category, amount, date, "card", Absent)

\* C8: add_expense with amount <= 0 on a Trip of the caller is answered 400
\* with an error on amount and creates no Expense: the expenses,
\* total_expense of the Trip and spent_amount of every Budget stay as they
\* were.
NonPositiveExpenseRefused ==
  [][\A t \in DOMAIN trips :
       NonPositiveAddExpense(t)
         => /\ resp'.status = 400
            /\ \E e \in resp'.errors : e[1] = "amount"
            /\ expenses' = expenses
            /\ total_expense(t)' = total_expense(t)
            /\ budgets' = budgets
            /\ \A b \in budgets : spent_amount(b)' = spent_amount(b)]_vars

\* An add_expense was refused for its amount on a Trip that has a Budget
\* and an Expense.
ExpenseRefusedForAmount ==
  /\ resp.status = 400
  /\ <<"amount", "not positive">> \in resp.errors
  /\ \E b \in budgets : spent_amount(b) > 0

\* C9: every stored Expense has amount > 0.
ExpenseAmountPositive ==
  \A x \in DOMAIN expenses : expenses[x].amount > 0

\* C10: every Expense is dated within start_date..end_date of its Trip.
ExpenseDateWithinTrip ==
  \A x \in DOMAIN expenses :
    /\ trips[expenses[x].trip].start_date <= expenses[x].expense_date
    /\ expenses[x].expense_date <= trips[expenses[x].trip].end_date

\* C11: every Expense and every TripLog whose day_number is set has
\* day_number = (its date - start_date of its Trip) + 1.
DayNumberMatchesDate ==
  /\ \A x \in DOMAIN expenses :
       expenses[x].day_number # Absent
         => expenses[x].day_number[1]
              = (expenses[x].expense_date - trips[expenses[x].trip].start_date) + 1
  /\ \A l \in DOMAIN logs :
       logs[l].day_number # Absent
         => logs[l].day_number[1]
              = (logs[l].visit_date - trips[logs[l].trip].start_date) + 1

\* ---------------------------------------------------------- trip totals
NestedBudgetPair == <<[category |-> "food", amount |-> 2], [category |-> "transport", amount |-> 3]>>

\* Trips with or without two budgets, expenses, destinations and the budget
\* summary of each trip.
NextTotals ==
  \/ \E bs \in {NoBudgets, NestedBudgetPair} : CreateTrip(Owner, 1, 1, NoDestinations, bs)
  \/ \E t \in 1..MaxTrips, amount \in {1, 2} : AddExpense(Owner, t, "food", amount, 1, "card", Absent)
  \/ \E t \in 1..MaxTrips : AddDestination(Owner, t, "Beach", 1, 1)
  \/ \E t \in 1..MaxTrips : BudgetSummary(Owner, t)

SpecTotals == Init /\ [][NextTotals]_vars

\* The sum of a sequence of numbers.
RECURSIVE SumSeq(_)
SumSeq(ns) == IF ns = <<>> THEN 0 ELSE Head(ns) + SumSeq(Tail(ns))

\* The amounts of the Budgets of trip t, the categories taken in turn.
BudgetAmountsOf(t) ==
  LET categories == <<"transport", "accommodation", "food", "attraction", "shopping", "other">>
  IN [i \in 1..6 |->
        IF \E b \in budgets : b.trip = t /\ b.category = categories[i]
          THEN (CHOOSE b \in budgets : b.trip = t /\ b.category = categories[i]).amount
          ELSE 0]

\* The amounts of the Expenses of trip t, the primary keys taken in turn.
ExpenseAmountsOf(t) ==
  [x \in 1..seq.expense |->
     IF x \in DOMAIN expenses /\ expenses[x].trip = t THEN expenses[x].amount ELSE 0]

\* The estimated costs of the Destinations of trip t.
EstimatedCostsOf(t) ==
  [d \in 1..seq.destination |->
     IF d \in DOMAIN destinations /\ destinations[d].trip = t
       THEN destinations[d].estimated_cost ELSE 0]

\* C12: for every Trip, total_budget, total_expense and total_estimated_cost
\* are the sums over its own Budgets, Expenses and Destinations (0 without
\* rows), budget_remaining is total_budget - total_expense, and a budget
\* summary answers with these numbers.
TotalsAreSums ==
  \A t \in DOMAIN trips :
    /\ total_budget(t) = SumSeq(BudgetAmountsOf(t))
    /\ total_expense(t) = SumSeq(ExpenseAmountsOf(t))
    /\ total_estimated_cost(t) = SumSeq(EstimatedCostsOf(t))
    /\ budget_remaining(t) = SumSeq(BudgetAmountsOf(t)) - SumSeq(ExpenseAmountsOf(t))
    /\ ({b \in budgets : b.trip = t} = {} => total_budget(t) = 0)
    /\ (RowsOf(expenses, t) = {} => total_expense(t) = 0)
    /\ (RowsOf(destinations, t) = {} => total_estimated_cost(t) = 0)
    /\ (resp.data.kind = "budget_summary" /\ resp.body = {t})
         => /\ resp.data.total_budget = SumSeq(BudgetAmountsOf(t))
            /\ resp.data.total_expense = SumSeq(ExpenseAmountsOf(t))
            /\ resp.data.total_estimated_cost = SumSeq(EstimatedCostsOf(t))
            /\ resp.data.remaining = SumSeq(BudgetAmountsOf(t)) - SumSeq(ExpenseAmountsOf(t))

\* A budget summary of a Trip with two Budgets and an Expense was given
\* while another Trip has an Expense too.
SummaryOfTwoTrips ==
  /\ resp.data.kind = "budget_summary"
  /\ resp.data.total_budget = 5
  /\ resp.data.total_expense > 0
  /\ resp.data.remaining = 5 - resp.data.total_expense
  /\ \E x \in DOMAIN expenses : expenses[x].trip \notin resp.body

\* ------------------------------------------------------------ percentages
\* Trips whose food budget is set to 0 or 2, expenses of two categories, and
\* the three handlers that compute percentages.
NextPercent ==
  \/ CreateTrip(Owner, 1, 1, NoDestinations, NoBudgets)
  \/ \E t \in 1..MaxTrips, amount \in {0, 2} : SetBudget(Owner, t, "food", amount)
  \/ \E t \in 1..MaxTrips, category \in {"food", "transport"} :
       AddExpense(Owner, t, category, 1, 1, "card", Absent)
  \/ \E t \in 1..MaxTrips : ListBudgets(Owner, t)
  \/ \E t \in 1..MaxTrips : BudgetSummary(Owner, t)
  \/ \E t \in 1..MaxTrips : Comparison(Owner, t)

SpecPercent == Init /\ [][NextPercent]_vars

\* C13: no percentage raises a division by zero: budget_usage_percent is 0
\* when total_budget is 0, usage_percent of a Budget is 0 when its amount is
\* 0, the usage_percent of a budget_comparison entry is 0 when the budget of
\* the category is 0 or absent, and no handler ends in a server error.
NoDivisionByZero ==
  /\ resp.status # 500
  /\ \A t \in DOMAIN trips :
       /\ budget_usage_percent(t) # ZeroDivisionError
       /\ total_budget(t) = 0 => budget_usage_percent(t) = Given(0)
       /\ \A i \in 1..Len(budget_comparison(t)) :
            LET entry == budget_comparison(t)[i]
                rows == {b \in budgets : b.trip = t /\ b.category = entry.category}
            IN /\ entry.usage_percent # ZeroDivisionError
               /\ (rows = {} \/ \A b \in rows : b.amount = 0) => entry.usage_percent = Given(0)
  /\ \A b \in budgets :
       /\ usage_percent(b) # ZeroDivisionError
       /\ b.amount = 0 => usage_percent(b) = Given(0)

\* A comparison was given for a Trip whose only Budget has amount 0 and
\* that has an Expense in the category of that Budget.
ComparisonWithoutBudget ==
  /\ resp.data.kind = "comparison"
  /\ resp.data.summary.total_budget = 0
  /\ resp.data.summary.total_expense > 0
  /\ resp.data.summary.budget_usage_percent = Given(0)
  /\ \E b \in budgets : b.trip \in resp.body /\ b.amount = 0 /\ spent_amount(b) > 0

\* ------------------------------------------------------- usage of a budget
\* Trips created with a food budget of 3 or of 100000, expenses of 20000 and
\* 30000 on food and of 20000 on transport, and the budgets of each trip.
NextBudgetUsage ==
  \/ \E amount \in {3, 100000} :
       CreateTrip(Owner, 1, 1, NoDestinations, <<[category |-> "food", amount |-> amount]>>)
  \/ \E t \in 1..MaxTrips,
        e \in {<<"food", 20000>>, <<"food", 30000>>, <<"transport", 20000>>} :
       AddExpense(Owner, t, e[1], e[2], 1, "card", Absent)
  \/ \E t \in 1..MaxTrips : ListBudgets(Owner, t)

SpecBudgetUsage == Init /\ [][NextBudgetUsage]_vars

\* The amounts of the Expenses of trip t in the category, the primary keys
\* taken in turn.
CategoryAmountsOf(t, category) ==
  [x \in 1..seq.expense |->
     IF x \in DOMAIN expenses /\ expenses[x].trip = t /\ expenses[x].category = category
       THEN expenses[x].amount ELSE 0]

\* p tenths of a percent is n / d x 100 rounded to one decimal.
IsRoundedPercent(p, n, d) ==
  /\ 2 * (p * d - 1000 * n) <= d
  /\ 2 * (1000 * n - p * d) <= d

\* C14: for every Budget, spent_amount is the sum of the amounts of the
\* Expenses of its Trip in its category, remaining_amount is amount -
\* spent_amount, usage_percent is spent_amount / amount x 100 rounded to one
\* decimal (50.0 for 100000 with 30000 and 20000 spent), and the budgets
\* handler answers with these numbers.
BudgetUsageIsOfCategory ==
  /\ \A b \in budgets :
       LET spent == SumSeq(CategoryAmountsOf(b.trip, b.category))
       IN /\ spent_amount(b) = spent
          /\ remaining_amount(b) = b.amount - spent
          /\ b.amount > 0 =>
               /\ usage_percent(b) # ZeroDivisionError
               /\ IsRoundedPercent(usage_percent(b)[1], spent, b.amount)
          /\ (b.amount = 100000 /\ spent = 50000) =>
               /\ remaining_amount(b) = 50000
               /\ usage_percent(b) = Given(500)
  /\ resp.data.kind = "budgets" =>
       resp.data.budgets = {BudgetData(b) : b \in {r \in budgets : r.trip \in resp.body}}

\* The budgets of a Trip with a food budget of 100000 and food expenses of
\* 30000 and 20000 were given, as 50000 spent, 50000 remaining and 50.0.
HalfOfFoodBudgetSpent ==
  /\ resp.data.kind = "budgets"
  /\ \E d \in resp.data.budgets :
       /\ d.category = "food"
       /\ d.amount = 100000
       /\ d.spent_amount = 50000
       /\ d.remaining_amount = 50000
       /\ d.usage_percent = Given(500)

\* ------------------------------------------------------ budget comparison
\* Trips with no budget or with a food and a transport budget, expenses on
\* food and on shopping, and the comparison of each trip.
NextBudgetComparison ==
  \/ \E bs \in {NoBudgets, NestedBudgetPair} : CreateTrip(Owner, 1, 1, NoDestinations, bs)
  \/ \E t \in 1..MaxTrips, category \in {"food", "shopping"} :
       AddExpense(Owner, t, category, 1, 1, "card", Absent)
  \/ \E t \in 1..MaxTrips : Comparison(Owner, t)

SpecBudgetComparison == Init /\ [][NextBudgetComparison]_vars

\* C15: budget_comparison has exactly one entry for each of the six budget
\* categories; the entry holds the amount of the Budget of the category (0
\* without a row), the total of the Expenses of the category (0 without
\* any) and difference = budget - actual; the comparison handler answers
\* with these entries.
OneEntryPerCategory ==
  /\ Cardinality(BudgetCategory) = 6
  /\ \A t \in DOMAIN trips :
       LET entries == budget_comparison(t)
       IN /\ Len(entries) = 6
          /\ \A category \in BudgetCategory :
               Cardinality({i \in 1..Len(entries) : entries[i].category = category}) = 1
          /\ \A i \in 1..Len(entries) :
               LET rows == {b \in budgets : b.trip = t /\ b.category = entries[i].category}
               IN /\ rows = {} => entries[i].budget = 0
                  /\ \A b \in rows : entries[i].budget = b.amount
                  /\ entries[i].actual = SumSeq(CategoryAmountsOf(t, entries[i].category))
                  /\ entries[i].difference = entries[i].budget - entries[i].actual
          /\ (resp.data.kind = "comparison" /\ resp.body = {t})
               => resp.data.budget_comparison = entries

\* A comparison was given whose entries include a category with a Budget
\* and an Expense, one with an Expense and no Budget, and one with neither.
ComparisonOfAllCategories ==
  /\ resp.data.kind = "comparison"
  /\ \E i, j, k \in 1..Len(resp.data.budget_comparison) :
       LET entries == resp.data.budget_comparison
       IN /\ entries[i].category = "food" /\ entries[i].budget = 2
          /\ entries[i].actual = 1 /\ entries[i].difference = 1
          /\ entries[j].category = "shopping" /\ entries[j].budget = 0
          /\ entries[j].actual = 1 /\ entries[j].difference = -1
          /\ entries[k].category = "other" /\ entries[k].budget = 0
          /\ entries[k].actual = 0 /\ entries[k].difference = 0

\* ---------------------------------------------------- schedule comparison
\* The comparison reads the database and writes nothing. It is computed on a
\* trip of two days that its owner created, to which add_destination and
\* add_log added the rows of a bounded choice.
SeededTrip == [user |-> Owner, start_date |-> 1, end_date |-> 2]

\* The sequences of at most n members of S.
SeqsUpTo(S, n) == UNION {[1..k -> S] : k \in 0..n}

\* The Destination row add_destination stores on the seeded trip.
PlannedRow(name, day) == [trip |-> 1, name |-> name, day |-> day, estimated_cost |-> 1]

\* The TripLog row add_log stores on the seeded trip.
LoggedRow(place_name, visit_date, visit_status, rating) ==
  [trip |-> 1, place_name |-> place_name, visit_date |-> visit_date,
   day_number |-> DeriveDayNumber(Absent, visit_date, SeededTrip),
   visit_status |-> visit_status, rating |-> rating, destination |-> Absent]

\* The rows among candidates that add_destination accepts on the seeded trip.
AcceptedPlannedRows(candidates) ==
  {r \in candidates : DestinationCreateErrors(r) = {} /\ r.day <= duration_days(SeededTrip)}

\* The rows among candidates that add_log accepts.
AcceptedLoggedRows(candidates) ==
  {r \in candidates : TripLogCreateErrors(r.visit_status, r.rating, r.destination) = {}}

\* The database after the creation of the seeded trip and the additions.
InitSeeded(planned, logged) ==
  /\ trips = <<SeededTrip>>
  /\ day_plans = NewDayPlans(1, SeededTrip)
  /\ destinations = planned
  /\ budgets = {}
  /\ expenses = EmptyTable
  /\ logs = logged
  /\ photos = {}
  /\ requests = NoRequests
  /\ seq = [trip |-> 1, destination |-> Len(planned), expense |-> 0, log |-> Len(logged)]
  /\ resp = Response(201, {}, {1})

SchedulePlannedRows ==
  AcceptedPlannedRows({PlannedRow("Beach", 1), PlannedRow("Market", 1), PlannedRow("Market", 2),
                       PlannedRow("Market", 3)})

ScheduleLoggedRows ==
  AcceptedLoggedRows({LoggedRow(place_name, visit_date, visit_status, Absent) :
                        place_name \in {"Beach", "Cafe"}, visit_date \in {1, 2},
                        visit_status \in VisitStatus})

InitSchedule ==
  \E planned \in SeqsUpTo(SchedulePlannedRows, MaxPlanned),
     logged \in SeqsUpTo(ScheduleLoggedRows, MaxLogged) :
    InitSeeded(planned, logged)

NextSchedule == Comparison(Owner, 1)

SpecSchedule == InitSchedule /\ [][NextSchedule]_vars

\* C16: in every schedule_comparison entry, visited_as_planned and skipped
\* are disjoint and make up planned_places, unplanned_visits is
\* actual_places minus planned_places, and visited_as_planned and
\* unplanned_visits are disjoint and make up actual_places; the comparison
\* handler answers with such entries.
SchedulePartition ==
  LET Partitioned(e) ==
        /\ e.visited_as_planned \cap e.skipped = {}
        /\ e.visited_as_planned \cup e.skipped = e.planned_places
        /\ e.unplanned_visits = e.actual_places \ e.planned_places
        /\ e.visited_as_planned \cap e.unplanned_visits = {}
        /\ e.visited_as_planned \cup e.unplanned_visits = e.actual_places
  IN /\ \A t \in DOMAIN trips : \A e \in schedule_comparison(t) : Partitioned(e)
     /\ resp.data.kind = "comparison" => \A e \in resp.data.schedule_comparison : Partitioned(e)

\* A comparison was given with a day that has a place visited as planned,
\* a skipped place and an unplanned visit.
DayWithAllThreeKinds ==
  /\ resp.data.kind = "comparison"
  /\ \E e \in resp.data.schedule_comparison :
       /\ e.visited_as_planned = {"Beach"}
       /\ e.skipped = {"Market"}
       /\ e.unplanned_visits = {"Cafe"}

\* C17: schedule_comparison has exactly one entry per DayPlan of the Trip;
\* the entry of day n has as planned_places the names of the Trip's
\* Destinations with day = n and as actual_places the place names of the
\* Trip's TripLogs with day_number = n and visit_status planned or
\* unplanned, and a Destination of day n without such a log is under
\* skipped.
ScheduleFollowsDayPlans ==
  \A t \in DOMAIN trips :
    LET entries == schedule_comparison(t)
        Visited(n, name) ==
          \E l \in DOMAIN logs :
            /\ logs[l].trip = t
            /\ logs[l].day_number = Given(n)
            /\ logs[l].visit_status \in {"planned", "unplanned"}
            /\ logs[l].place_name = name
    IN /\ Cardinality(entries) = Cardinality(DayPlansOf(t))
       /\ \A dp \in DayPlansOf(t) :
            Cardinality({e \in entries : e.day_number = dp.day_number /\ e.date = dp.date}) = 1
       /\ \A e \in entries :
            /\ \A d \in DOMAIN destinations :
                 (destinations[d].trip = t /\ destinations[d].day = e.day_number)
                   => /\ destinations[d].name \in e.planned_places
                      /\ ~Visited(e.day_number, destinations[d].name)
                           => destinations[d].name \in e.skipped
            /\ \A name \in e.planned_places :
                 \E d \in DOMAIN destinations :
                   /\ destinations[d].trip = t
                   /\ destinations[d].day = e.day_number
                   /\ destinations[d].name = name
            /\ \A name \in {"Beach", "Market", "Cafe"} :
                 name \in e.actual_places <=> Visited(e.day_number, name)
            /\ \A name \in e.actual_places : Visited(e.day_number, name)
       /\ (resp.data.kind = "comparison" /\ resp.body = {t})
            => resp.data.schedule_comparison = entries

\* A comparison was given for the Trip with Beach on day 1 and Market on
\* day 2 and one log, of Beach on day 1 as planned: day 1 has Beach visited
\* as planned and day 2 has Market skipped.
BeachVisitedMarketSkipped ==
  /\ resp.data.kind = "comparison"
  /\ {destinations[d].name : d \in DOMAIN destinations} = {"Beach", "Market"}
  /\ Cardinality(DOMAIN logs) = 1
  /\ \E e \in resp.data.schedule_comparison :
       e.day_number = 1 /\ e.visited_as_planned = {"Beach"} /\ e.skipped = {}
  /\ \E e \in resp.data.schedule_comparison :
       e.day_number = 2 /\ e.visited_as_planned = {} /\ e.skipped = {"Market"}

\* --------------------------------------------------- plan completion rate
CompletionPlannedRows == AcceptedPlannedRows({PlannedRow("Beach", 1), PlannedRow("Market", 2)})

CompletionLoggedRows ==
  AcceptedLoggedRows({LoggedRow("Beach", 1, visit_status, Absent) : visit_status \in VisitStatus})

InitCompletion ==
  \E planned \in SeqsUpTo(CompletionPlannedRows, MaxCompletionPlanned),
     logged \in SeqsUpTo(CompletionLoggedRows, MaxLogged) :
    InitSeeded(planned, logged)

NextCompletion == Comparison(Owner, 1)

SpecCompletion == InitCompletion /\ [][NextCompletion]_vars

\* C18: plan_completion_rate is (the number of the Trip's TripLogs with
\* visit_status planned) / (the number of its Destinations) x 100 rounded to
\* one decimal, and 0 when the Trip has no Destination; it never raises a
\* division by zero and the comparison handler answers with it.
PlanCompletionRate ==
  /\ resp.status # 500
  /\ \A t \in DOMAIN trips :
       LET planned_visited ==
             Cardinality({l \in DOMAIN logs : logs[l].trip = t /\ logs[l].visit_status = "planned"})
           total_planned == Cardinality({d \in DOMAIN destinations : destinations[d].trip = t})
           rate == plan_completion_rate(t)
       IN /\ rate # ZeroDivisionError
          /\ total_planned = 0 => rate = Given(0)
          /\ total_planned > 0 => IsRoundedPercent(rate[1], planned_visited, total_planned)
          /\ (resp.data.kind = "comparison" /\ resp.body = {t})
               => resp.data.summary.plan_completion_rate = rate

\* A comparison was given for a Trip with three Destinations and one visit
\* as planned next to an unplanned one: the rate is 33.3.
OneOfThreeCompleted ==
  /\ resp.data.kind = "comparison"
  /\ Cardinality(DOMAIN destinations) = 3
  /\ resp.data.summary.planned_and_visited = 1
  /\ resp.data.summary.unplanned_visits = 1
  /\ resp.data.summary.plan_completion_rate = Given(333)

\* --------------------------------------------------------- average rating
\* The logs add_log accepts among those rated null, 0, 1, 2, 5 or 6.
RatedLoggedRows ==
  AcceptedLoggedRows({LoggedRow("Beach", 1, "planned", rating) : rating \in Optional({0, 1, 2, 5, 6})})

InitRating ==
  \E logged \in SeqsUpTo(RatedLoggedRows, MaxRated) : InitSeeded(EmptyTable, logged)

\* The rating of a log is set to null, to 0 or to 4 through the log
\* endpoint, and the comparison is computed.
NextRating ==
  \/ \E l \in 1..MaxRated, rating \in {Given(Absent), Given(Given(0)), Given(Given(4))} :
       UpdateLog(Owner, l, Absent, Absent, rating)
  \/ Comparison(Owner, 1)

SpecRating == InitRating /\ [][NextRating]_vars

\* The ratings of the TripLogs of trip t, the primary keys taken in turn (0
\* for a log without a rating).
RatingsOf(t) ==
  [l \in 1..seq.log |->
     IF l \in DOMAIN logs /\ logs[l].trip = t /\ logs[l].rating # Absent
       THEN logs[l].rating[1] ELSE 0]

\* C19: average_rating is null exactly when the Trip has no TripLog with a
\* rating; otherwise every rating is within 1..5 and average_rating is their
\* mean rounded to one decimal; the comparison handler answers with it.
AverageRating ==
  \A t \in DOMAIN trips :
    LET rated == {l \in DOMAIN logs : logs[l].trip = t /\ logs[l].rating # Absent}
        average == average_rating(t)
    IN /\ average = Absent <=> rated = {}
       /\ \A l \in rated : logs[l].rating[1] \in 1..5
       /\ rated # {} =>
            /\ 2 * (average[1] * Cardinality(rated) - 10 * SumSeq(RatingsOf(t))) <= Cardinality(rated)
            /\ 2 * (10 * SumSeq(RatingsOf(t)) - average[1] * Cardinality(rated)) <= Cardinality(rated)
       /\ (resp.data.kind = "comparison" /\ resp.body = {t})
            => resp.data.summary.average_rating = average

\* A comparison was given for a Trip whose three logs are rated 1, 1 and 2:
\* the average is 1.3.
AverageOfThreeRatings ==
  /\ resp.data.kind = "comparison"
  /\ Cardinality(DOMAIN logs) = 3
  /\ SumSeq(RatingsOf(1)) = 4
  /\ \A l \in DOMAIN logs : logs[l].rating # Absent
  /\ resp.data.summary.average_rating = Given(13)

\* --------------------------------------------------------- cascade delete
NestedDestination == <<[name |-> "Beach", day |-> 1, estimated_cost |-> 1]>>

\* Trips with or without a nested destination and two budgets, expenses
\* with or without a link to a Destination, logs with or without a photo, and
\* the deletion of logs and of trips.
NextCascade ==
  \/ \E ds \in {NoDestinations, NestedDestination}, bs \in {NoBudgets, NestedBudgetPair} :
       CreateTrip(Owner, 1, 1, ds, bs)
  \/ \E t \in 1..MaxTrips, destination \in Optional(1..MaxRows) :
       AddExpense(Owner, t, "food", 1, 1, "card", destination)
  \/ \E t \in 1..MaxTrips, photo_urls \in {<<>>, <<"url">>} :
       AddLog(Owner, t, "Beach", 1, "planned", Absent, photo_urls, Absent)
  \/ \E l \in 1..MaxRows : DestroyLog(Owner, l)
  \/ \E t \in 1..MaxTrips : DestroyTrip(Owner, t)

SpecCascade == Init /\ [][NextCascade]_vars

\* Every Destination, DayPlan, Budget, Expense and TripLog refers to an
\* existing Trip, every TripLogPhoto to an existing TripLog.
RowsReferToTrips ==
  /\ \A dp \in day_plans : dp.trip \in DOMAIN trips
  /\ \A b \in budgets : b.trip \in DOMAIN trips
  /\ \A d \in DOMAIN destinations : destinations[d].trip \in DOMAIN trips
  /\ \A x \in DOMAIN expenses : expenses[x].trip \in DOMAIN trips
  /\ \A l \in DOMAIN logs : logs[l].trip \in DOMAIN trips
  /\ \A ph \in photos : ph.log \in DOMAIN logs

\* A step that deletes Trip t leaves exactly the rows of the other Trips, as
\* they were.
TripDeletedWithItsRows ==
  \A t \in DOMAIN trips :
    t \notin DOMAIN trips' =>
      /\ trips' = [u \in (DOMAIN trips) \ {t} |-> trips[u]]
      /\ day_plans' = {dp \in day_plans : dp.trip # t}
      /\ budgets' = {b \in budgets : b.trip # t}
      /\ destinations' = [d \in {d \in DOMAIN destinations : destinations[d].trip # t} |-> destinations[d]]
      /\ expenses' = [x \in {x \in DOMAIN expenses : expenses[x].trip # t} |-> expenses[x]]
      /\ logs' = [l \in {l \in DOMAIN logs : logs[l].trip # t} |-> logs[l]]
      /\ photos' = {ph \in photos : logs[ph.log].trip # t}

\* C20: after a Trip is deleted none of its Destinations, DayPlans, Budgets,
\* Expenses, TripLogs and TripLogPhotos remains and the rows of every other
\* Trip are unchanged; in every state each such row refers to an existing
\* Trip (a TripLogPhoto to an existing TripLog).
CascadeDelete == []RowsReferToTrips /\ [][TripDeletedWithItsRows]_vars

\* -------------------------------------------------------- expense summary
\* Expense rows of a trip whose expense summary is computed.
MaxSummarised == 2

\* The Expense row Expense.save stores on the seeded trip (days 1 and 2): the
\* day_number stays unset for a date before the start of the trip.
SavedExpense(category, amount, expense_date, payment_method) ==
  [trip |-> 1, category |-> category, amount |-> amount, expense_date |-> expense_date,
   day_number |-> DeriveDayNumber(Absent, expense_date, SeededTrip),
   payment_method |-> payment_method, destination |-> Absent]

SummarisedExpenseRows ==
  {SavedExpense(category, amount, expense_date, payment_method) :
     category \in {"food", "transport"}, amount \in {1, 2}, expense_date \in {0, 1, 2},
     payment_method \in {"cash", "card"}}

InitExpenseSummary ==
  \E saved \in SeqsUpTo(SummarisedExpenseRows, MaxSummarised) :
    /\ trips = <<SeededTrip>>
    /\ day_plans = NewDayPlans(1, SeededTrip)
    /\ destinations = EmptyTable
    /\ budgets = {}
    /\ expenses = saved
    /\ logs = EmptyTable
    /\ photos = {}
    /\ requests = NoRequests
    /\ seq = [trip |-> 1, destination |-> 0, expense |-> Len(saved), log |-> 0]
    /\ resp = Response(201, {}, {1})

NextExpenseSummary == ExpenseSummary(Owner, 1)

SpecExpenseSummary == InitExpenseSummary /\ [][NextExpenseSummary]_vars

\* The sum of the values of a dictionary.
RECURSIVE SumValues(_)
SumValues(d) ==
  IF DOMAIN d = {} THEN 0
  ELSE LET k == CHOOSE j \in DOMAIN d : TRUE
       IN d[k] + SumValues([j \in (DOMAIN d) \ {k} |-> d[j]])

\* The amounts of the Expenses of trip t that are among ids, the primary
\* keys taken in turn.
ExpenseAmountsWhere(t, ids) ==
  [x \in 1..seq.expense |->
     IF x \in DOMAIN expenses /\ expenses[x].trip = t /\ x \in ids
       THEN expenses[x].amount ELSE 0]

\* C21: the values of by_category, of by_day and of by_payment_method each
\* sum to total, the total of the Expenses of the Trip; the Expenses with
\* day_number N are summed under "Day N" and those without a day_number
\* under the unclassified key, and by_day has no other key.
ExpenseSummaryGroups ==
  \A t \in DOMAIN trips :
    (resp.data.kind = "expense_summary" /\ resp.body = {t}) =>
      LET data == resp.data
          rows == {expenses[x] : x \in RowsOf(expenses, t)}
      IN /\ data.total = SumSeq(ExpenseAmountsOf(t))
         /\ SumValues(data.by_category) = data.total
         /\ SumValues(data.by_day) = data.total
         /\ SumValues(data.by_payment_method) = data.total
         /\ DOMAIN data.by_day
              = {"Day " \o ToString(exp.day_number[1]) : exp \in {e \in rows : e.day_number # Absent}}
                  \cup {Unclassified : exp \in {e \in rows : e.day_number = Absent}}
         /\ \A exp \in rows :
              IF exp.day_number = Absent
                THEN data.by_day[Unclassified]
                       = SumSeq(ExpenseAmountsWhere(t, {x \in DOMAIN expenses : expenses[x].day_number = Absent}))
                ELSE data.by_day["Day " \o ToString(exp.day_number[1])]
                       = SumSeq(ExpenseAmountsWhere(t, {x \in DOMAIN expenses : expenses[x].day_number = exp.day_number}))
         /\ \A exp \in rows :
              /\ data.by_category[CategoryDisplay[exp.category]]
                   = SumSeq(ExpenseAmountsWhere(t, {x \in DOMAIN expenses : expenses[x].category = exp.category}))
              /\ data.by_payment_method[PaymentMethodDisplay[exp.payment_method]]
                   = SumSeq(ExpenseAmountsWhere(t, {x \in DOMAIN expenses : expenses[x].payment_method = exp.payment_method}))

\* The summary of two food expenses of 1 and 2, one on day 2 and one dated
\* before the trip, one paid in cash and one by card.
SummaryWithUnclassifiedExpense ==
  /\ resp.data.kind = "expense_summary"
  /\ resp.data.total = 3
  /\ resp.data.by_category = [k \in {"sikbi"} |-> 3]
  /\ DOMAIN resp.data.by_day = {"Day 2", Unclassified}
  /\ DOMAIN resp.data.by_payment_method = {"hyeongeum", "kadeu"}

\* ------------------------------------------------- interleaved updates
\* One trip of one day; two workers serve PATCH requests that set end_date
\* and GET requests for the days, query by query.
NextInterleaved ==
  \/ CreateTrip(Owner, 1, 1, NoDestinations, NoBudgets)
  \/ \E w \in Workers, t \in 1..MaxTrips, end_date \in {1, 2, 3} :
       GetObject(w, Owner, t, Absent, Given(end_date))
  \/ \E w \in Workers : InstanceSave(w)
  \/ \E w \in Workers : DayPlansDelete(w)
  \/ \E w \in Workers : DayPlanCreate(w)
  \/ \E t \in 1..MaxTrips : Days(Owner, t)

SpecInterleaved == Init /\ [][NextInterleaved]_vars

\* The DayPlans of trip t are the days 1..duration_days of its stored dates.
DayPlansOfStoredRange(t) ==
  {[day_number |-> dp.day_number, date |-> dp.date] : dp \in {p \in day_plans : p.trip = t}}
    = {[day_number |-> n, date |-> trips[t].start_date + (n - 1)] : n \in 1..duration_days(trips[t])}

\* C22: the Trip update and the replacement of the DayPlans behave as one
\* step: no answer of days and no state without an update in progress shows
\* DayPlans other than the days 1..duration_days of the stored dates, and no
\* update ends in a server error on the unique (trip, day_number) constraint.
DayPlanReplacementAtomic ==
  /\ resp.status # 500
  /\ \A t \in DOMAIN trips :
       (resp.data.kind = "days" /\ resp.body = {t})
         => resp.data.days
              = {[day_number |-> n, date |-> trips[t].start_date + (n - 1)] :
                   n \in 1..duration_days(trips[t])}
  /\ \A t \in DOMAIN trips :
       (\A w \in Workers : requests[w].pc = "idle") => DayPlansOfStoredRange(t)

\* --------------------------------------------------------- read-only views
\* Trips with two budgets, expenses, destinations and logs, and the three
\* computed views of each trip.
NextReadOnly ==
  \/ CreateTrip(Owner, 1, 1, NoDestinations, NestedBudgetPair)
  \/ \E t \in 1..MaxTrips : AddExpense(Owner, t, "food", 1, 1, "card", Absent)
  \/ \E t \in 1..MaxTrips : AddDestination(Owner, t, "Beach", 1, 1)
  \/ \E t \in 1..MaxTrips : AddLog(Owner, t, "Beach", 1, "planned", Given(3), <<>>, Absent)
  \/ \E t \in 1..MaxTrips : BudgetSummary(Owner, t)
  \/ \E t \in 1..MaxTrips : ExpenseSummary(Owner, t)
  \/ \E t \in 1..MaxTrips : Comparison(Owner, t)

SpecReadOnly == Init /\ [][NextReadOnly]_vars

\* The responses of budget_summary, expense_summary and comparison.
ComputedKinds == {"budget_summary", "expense_summary", "comparison"}

\* The last response is a computed view that shows the rows stored now: the
\* amounts of the Expenses and Budgets and the number of Destinations and logs.
ComputedFromStoredRows ==
  \A t \in DOMAIN trips :
    resp.body = {t} =>
      /\ resp.data.kind = "budget_summary" =>
           /\ resp.data.total_expense = SumSeq(ExpenseAmountsOf(t))
           /\ resp.data.total_budget = SumSeq(BudgetAmountsOf(t))
           /\ resp.data.total_estimated_cost = SumSeq(EstimatedCostsOf(t))
      /\ resp.data.kind = "expense_summary" =>
           /\ resp.data.total = SumSeq(ExpenseAmountsOf(t))
           /\ SumValues(resp.data.by_day) = SumSeq(ExpenseAmountsOf(t))
      /\ resp.data.kind = "comparison" =>
           /\ resp.data.summary.total_expense = SumSeq(ExpenseAmountsOf(t))
           /\ resp.data.summary.total_budget = SumSeq(BudgetAmountsOf(t))
           /\ resp.data.summary.total_planned_places
                = Cardinality({d \in DOMAIN destinations : destinations[d].trip = t})
           /\ resp.data.summary.total_visited_places
                = Cardinality({l \in DOMAIN logs : logs[l].trip = t})

\* A step that answers with a computed view writes no row, and answers as
\* the step before it did when that was the same view of the same trip.
ComputedViewStep ==
  resp'.data.kind \in ComputedKinds =>
    /\ UNCHANGED store
    /\ (resp.data.kind = resp'.data.kind /\ resp.body = resp'.body) => resp' = resp

\* C23: budget_summary, expense_summary and comparison modify no stored row,
\* two invocations on the same Trip without a write in between give the same
\* result, and an invocation after a write shows the rows as the write left
\* them.
ComputedViewsAreFresh == []ComputedFromStoredRows /\ [][ComputedViewStep]_vars

\* The budget summary of a trip after its second expense was added.
SummaryAfterSecondExpense ==
  /\ resp.data.kind = "budget_summary"
  /\ resp.body = {1}
  /\ resp.data.total_expense = 2
  /\ seq.expense = 2

\* ------------------------------------------------ logs outside the trip
LogDates == {0, 1, 2, 3}

\* A trip of one day, logs dated before, within and after the trip, changes
\* of the dates of the trip, and the comparison.
NextOutsideLog ==
  \/ CreateTrip(Owner, 1, 1, NoDestinations, NoBudgets)
  \/ \E t \in 1..MaxTrips, visit_date \in LogDates, visit_status \in {"planned", "skipped"} :
       AddLog(Owner, t, "Beach", visit_date, visit_status, Absent, <<>>, Absent)
  \/ \E t \in 1..MaxTrips, s \in {1, 3}, e \in {1, 4} :
       UpdateTrip(Owner, t, TRUE, Given(s), Given(e))
  \/ \E t \in 1..MaxTrips : Comparison(Owner, t)

SpecOutsideLog == Init /\ [][NextOutsideLog]_vars

\* The visit_date of TripLog l is not within the dates of its Trip.
OutsideTrip(l) ==
  \/ logs[l].visit_date < trips[logs[l].trip].start_date
  \/ logs[l].visit_date > trips[logs[l].trip].end_date

\* A TripLog dated outside its Trip is among the actual_visited rows of no
\* DayPlan of the Trip, and the summary of the comparison counts it.
OutsideLogInNoDay ==
  /\ \A l \in DOMAIN logs :
       OutsideTrip(l) =>
         \A dp \in day_plans :
           ~(/\ dp.trip = logs[l].trip
             /\ logs[l].day_number = Given(dp.day_number)
             /\ logs[l].visit_status \in {"planned", "unplanned"})
  /\ \A t \in DOMAIN trips :
       (resp.data.kind = "comparison" /\ resp.body = {t}) =>
         resp.data.summary.total_visited_places
           = Cardinality({l \in DOMAIN logs :
                            logs[l].trip = t /\ logs[l].visit_status \in {"planned", "unplanned"}})

\* An add_log of the owner with a visit_date outside the Trip.
OutsideAddLog(t, visit_date) ==
  /\ t \in DOMAIN trips
  /\ (visit_date < trips[t].start_date \/ visit_date > trips[t].end_date)
  /\ \E visit_status \in {"planned", "skipped"} :
       AddLog(Owner, t, "Beach", visit_date, visit_status, Absent, <<>>, Absent)

\* add_log answers 201 to it and stores the log, without a day_number when
\* the visit_date is before start_date.
OutsideLogAccepted ==
  \A t \in 1..MaxTrips, visit_date \in LogDates :
    OutsideAddLog(t, visit_date) =>
      /\ resp'.status = 201
      /\ seq'.log \in DOMAIN logs'
      /\ logs'[seq'.log].visit_date = visit_date
      /\ visit_date < trips[t].start_date => logs'[seq'.log].day_number = Absent

\* C24: add_log accepts a TripLog whose visit_date is outside the dates of
\* its Trip (leaving day_number unset for a date before start_date); such a
\* log is among the actual_places of no day of schedule_comparison and is
\* counted in the visit counts of the summary.
OutsideLogLeftOut == []OutsideLogInNoDay /\ [][OutsideLogAccepted]_vars

\* ------------------------------------------------- links to a Destination
\* Every user creates trips with or without a nested destination and adds
\* expenses and logs that name no Destination or any primary key; Destinations
\* are deleted.
NextLink ==
  \E c \in Users :
    \/ \E ds \in {NoDestinations, NestedDestination} : CreateTrip(c, 1, 1, ds, NoBudgets)
    \/ \E t \in 1..MaxTrips, destination \in Optional(1..MaxRows) :
         AddExpense(c, t, "food", 1, 1, "card", destination)
    \/ \E t \in 1..MaxTrips, destination \in Optional(1..MaxRows) :
         AddLog(c, t, "Beach", 1, "planned", Absent, <<>>, destination)
    \/ \E d \in 1..MaxRows : DestroyDestination(c, d)

SpecLink == Init /\ [][NextLink]_vars

\* The rows of a table (Expense or TripLog) that are linked to a Destination
\* are linked to a stored Destination of their own Trip.
LinkedWithinTrip(table) ==
  \A i \in DOMAIN table :
    table[i].destination # Absent =>
      /\ table[i].destination[1] \in DOMAIN destinations
      /\ destinations[table[i].destination[1]].trip = table[i].trip

\* C25: an Expense or TripLog that is linked to a Destination is linked to a
\* Destination of its own Trip, never to one of another Trip or of another
\* user's Trip.
LinkedToOwnTrip == LinkedWithinTrip(expenses) /\ LinkedWithinTrip(logs)

\* ------------------------------------------------ estimated cost per day
\* DayPlan.destinations: the Destinations of the trip with day = day_number.
day_plan_destinations(dp) ==
  {d \in RowsOf(destinations, dp.trip) : destinations[d].day = dp.day_number}

\* DayPlan.estimated_cost
day_plan_estimated_cost(dp) == SumEstimatedCost(day_plan_destinations(dp))

\* The estimated costs of the DayPlans of trip t, the day numbers taken in
\* turn (0 for a day number without DayPlan).
DayPlanCostsOf(t) ==
  [n \in 1..MaxDuration |->
     IF \E dp \in day_plans : dp.trip = t /\ dp.day_number = n
       THEN day_plan_estimated_cost(CHOOSE dp \in day_plans : dp.trip = t /\ dp.day_number = n)
       ELSE 0]

\* C26: the sum of DayPlan.estimated_cost over the DayPlans of a Trip equals
\* the Trip's total_estimated_cost: every Destination is counted under exactly
\* one DayPlan of its Trip.
DayPlanCostsSumToTotal ==
  \A t \in DOMAIN trips :
    /\ SumSeq(DayPlanCostsOf(t)) = total_estimated_cost(t)
    /\ \A d \in RowsOf(destinations, t) :
         Cardinality({dp \in day_plans : d \in day_plan_destinations(dp)}) = 1

\* --------------------------------------------------------- category sums
\* Trips with two budgets, a third budget set afterwards, expenses, also
\* with a category outside the enum, and the comparison of each trip.
NextCategorySums ==
  \/ CreateTrip(Owner, 1, 1, NoDestinations, NestedBudgetPair)
  \/ \E t \in 1..MaxTrips : SetBudget(Owner, t, "other", 1)
  \/ \E t \in 1..MaxTrips, category \in {"food", "shopping", "snacks"} :
       AddExpense(Owner, t, category, 1, 1, "card", Absent)
  \/ \E t \in 1..MaxTrips : Comparison(Owner, t)

SpecCategorySums == Init /\ [][NextCategorySums]_vars

\* The values of one field of the entries of a budget_comparison.
BudgetColumn(entries) == [i \in 1..Len(entries) |-> entries[i].budget]

ActualColumn(entries) == [i \in 1..Len(entries) |-> entries[i].actual]

\* C27: the actual values of the budget_comparison entries sum to the total
\* of the Expenses of the Trip and the budget values to the total of its
\* Budgets: every Expense and every Budget is of exactly one category of the
\* enum; the comparison answers with entries and totals that agree.
CategoryEntriesSumToTotals ==
  /\ \A x \in DOMAIN expenses : expenses[x].category \in BudgetCategory
  /\ \A b \in budgets : b.category \in BudgetCategory
  /\ \A t \in DOMAIN trips :
       /\ SumSeq(ActualColumn(budget_comparison(t))) = SumSeq(ExpenseAmountsOf(t))
       /\ SumSeq(BudgetColumn(budget_comparison(t))) = SumBudgets({b \in budgets : b.trip = t})
       /\ (resp.data.kind = "comparison" /\ resp.body = {t}) =>
            /\ SumSeq(ActualColumn(resp.data.budget_comparison)) = resp.data.summary.total_expense
            /\ SumSeq(BudgetColumn(resp.data.budget_comparison)) = resp.data.summary.total_budget

\* The comparison of a trip with three budgets (2, 3 and 1) and expenses on
\* food and on shopping.
ComparisonOfThreeBudgets ==
  /\ resp.data.kind = "comparison"
  /\ resp.data.summary.total_budget = 6
  /\ resp.data.summary.total_expense = 2
  /\ Cardinality({i \in 1..6 : resp.data.budget_comparison[i].actual = 1}) = 2

\* C28: plan_completion_rate lies between 0 and 100 (held in tenths of a
\* percent): the TripLogs with visit_status planned are never more than the
\* Destinations of the Trip.
CompletionRateWithinHundred ==
  \A t \in DOMAIN trips :
    /\ Cardinality(LogsWithStatus(t, "planned")) <= Cardinality(RowsOf(destinations, t))
    /\ plan_completion_rate(t) # ZeroDivisionError
    /\ plan_completion_rate(t)[1] \in 0..1000
    /\ (resp.data.kind = "comparison" /\ resp.body = {t}) =>
         resp.data.summary.plan_completion_rate[1] \in 0..1000

\* ------------------------------------------------------ memos of the days
\* Trips of two days, memos written on their first day, and updates (PUT and
\* PATCH) with or without dates, equal to the stored ones or not.
NextMemo ==
  \/ CreateTrip(Owner, 1, 2, NoDestinations, NoBudgets)
  \/ \E t \in 1..MaxTrips : UpdateDay(Owner, t, 1, Given("note"), Absent, Absent)
  \/ \E t \in 1..MaxTrips, partial \in BOOLEAN, s \in Optional({2}), e \in Optional({2, 3}) :
       UpdateTrip(Owner, t, partial, s, e)

SpecMemo == Init /\ [][NextMemo]_vars

\* An update of trip t that is answered 200.
TripUpdated(t) ==
  /\ \E partial \in BOOLEAN, s \in Optional({2}), e \in Optional({2, 3}) :
       UpdateTrip(Owner, t, partial, s, e)
  /\ resp'.status = 200

\* C29: a Trip update that changes neither start_date nor end_date leaves
\* every DayPlan as it was (day_number, date, memo); one that changes a date
\* leaves the Trip with the DayPlans of the new range, each with an empty
\* memo, also for the days of the old range; the DayPlans of other Trips stay.
DayPlansReplacedOnDateChange ==
  [][\A t \in DOMAIN trips :
       TripUpdated(t) =>
         /\ {dp \in day_plans' : dp.trip # t} = {dp \in day_plans : dp.trip # t}
         /\ IF trips'[t].start_date = trips[t].start_date /\ trips'[t].end_date = trips[t].end_date
              THEN {dp \in day_plans' : dp.trip = t} = {dp \in day_plans : dp.trip = t}
              ELSE {dp \in day_plans' : dp.trip = t}
                     = {[trip |-> t, day_number |-> n, date |-> trips'[t].start_date + (n - 1),
                         memo |-> ""] : n \in 1..duration_days(trips'[t])}]_vars

\* Trip 1 was extended to three days and all its DayPlans have an empty memo,
\* while a day of trip 2 keeps its memo.
MemosEmptiedByDateChange ==
  /\ DOMAIN trips = {1, 2}
  /\ trips[1].end_date = 3
  /\ resp = Response(200, {}, {1})
  /\ {dp.memo : dp \in {p \in day_plans : p.trip = 1}} = {""}
  /\ Cardinality({p \in day_plans : p.trip = 1}) = duration_days(trips[1])
  /\ \E dp \in day_plans : dp.trip = 2 /\ dp.memo = "note"

\* ------------------------------------------------- comparison serializer
\* TripComparisonSerializer.get_budget_comparison: the loop of the view over
\* BudgetCategory.choices, on Decimal amounts.
get_budget_comparison(t) ==
  [i \in 1..Len(BudgetCategoryChoices) |-> BudgetComparisonEntry(t, BudgetCategoryChoices[i])]

\* One entry of TripComparisonSerializer.get_schedule_comparison, for
\* DayPlan dp: planned and actual are querysets, of the Destinations of the
\* day and of the TripLogs of the day whatever their visit_status; the counts
\* are counts of rows, the places are sets of names.
SerializerScheduleEntry(t, dp) ==
  LET planned == {d \in RowsOf(destinations, t) : destinations[d].day = dp.day_number}
      actual == {l \in RowsOf(logs, t) : logs[l].day_number = Given(dp.day_number)}
      planned_names == {destinations[d].name : d \in planned}
      actual_names == {logs[l].place_name : l \in actual}
  IN [day_number |-> dp.day_number,
      date |-> dp.date,
      planned_count |-> Cardinality(planned),
      actual_count |-> Cardinality(actual),
      planned_places |-> planned_names,
      actual_places |-> actual_names,
      visited_as_planned |-> planned_names \cap actual_names,
      skipped |-> planned_names \ actual_names,
      unplanned_visits |-> actual_names \ planned_names]

\* TripComparisonSerializer.get_schedule_comparison
get_schedule_comparison(t) ==
  {SerializerScheduleEntry(t, dp) : dp \in {p \in day_plans : p.trip = t}}

\* TripComparisonSerializer.get_summary
get_summary(t) ==
  [total_budget |-> total_budget(t),
   total_expense |-> total_expense(t),
   budget_remaining |-> budget_remaining(t),
   budget_usage_percent |-> budget_usage_percent(t),
   total_planned_places |-> Cardinality(RowsOf(destinations, t)),
   total_visited_places |->
     Cardinality({l \in RowsOf(logs, t) : logs[l].visit_status \in {"planned", "unplanned"}}),
   planned_and_visited |-> Cardinality(LogsWithStatus(t, "planned")),
   unplanned_visits |-> Cardinality(LogsWithStatus(t, "unplanned")),
   skipped_places |-> Cardinality(LogsWithStatus(t, "skipped")),
   plan_completion_rate |-> plan_completion_rate(t),
   average_rating |-> average_rating(t)]

\* TripComparisonSerializer(trip).data: the three method fields of a stored
\* Trip; no view of the application calls it.
TripComparisonData(t) ==
  /\ t \in DOMAIN trips
  /\ resp' = DataResponse(t,
               [kind |-> "trip_comparison",
                budget_comparison |-> get_budget_comparison(t),
                schedule_comparison |-> get_schedule_comparison(t),
                summary |-> get_summary(t)])
  /\ UNCHANGED <<store, requests>>

\* Trips of two days with two budgets, a Destination named Beach on day 1
\* (also twice), logs of every visit_status at Beach or at a Cafe on day 1,
\* expenses, and both computations of the comparison of each trip.
NextSerializer ==
  \/ CreateTrip(Owner, 1, 2, NoDestinations, NestedBudgetPair)
  \/ \E t \in 1..MaxTrips : AddDestination(Owner, t, "Beach", 1, 1)
  \/ \E t \in 1..MaxTrips, place_name \in {"Beach", "Cafe"}, visit_status \in VisitStatus :
       AddLog(Owner, t, place_name, 1, visit_status, Absent, <<>>, Absent)
  \/ \E t \in 1..MaxTrips : AddExpense(Owner, t, "food", 1, 1, "card", Absent)
  \/ \E t \in 1..MaxTrips : Comparison(Owner, t)
  \/ \E t \in 1..MaxTrips : TripComparisonData(t)

SpecSerializer == Init /\ [][NextSerializer]_vars

\* The counts of a summary.
SummaryCounts(summary) ==
  [total_planned_places |-> summary.total_planned_places,
   total_visited_places |-> summary.total_visited_places,
   planned_and_visited |-> summary.planned_and_visited,
   unplanned_visits |-> summary.unplanned_visits]

\* C30: for every stored Trip, TripComparisonSerializer and the comparison
\* endpoint compute the same budget_comparison, the same schedule_comparison
\* entries (planned_count, actual_count, planned_places, actual_places,
\* visited_as_planned, skipped, unplanned_visits of each day) and the same
\* summary counts.
SerializerAgreesWithView ==
  \A t \in DOMAIN trips :
    /\ get_budget_comparison(t) = budget_comparison(t)
    /\ get_schedule_comparison(t) = schedule_comparison(t)
    /\ SummaryCounts(get_summary(t)) = SummaryCounts(ComparisonSummary(t))

====
